---- MODULE Spec2Model ----
(***************************************************************************)
(* Model of the batch generators of datasource.py: DataSource's           *)
(* threadBatchGen and processBatchGen (a producer thread, its per-batch    *)
(* workers, the capacity-1 batchQueue, and the consumer's scoped block     *)
(* with its finally clause); BufferDataSource's append and clear.          *)
(***************************************************************************)
EXTENDS Integers, Sequences, FiniteSets, TLC

\* ----------------------------------------------------------------- bounds
\* Largest batchSize a generator is acquired with.
MaxBatchSize == 2
\* Production cycles the producer runs before the model stops following it.
MaxCycles == 2
\* Calls of the generator the consumer makes inside its scoped block.
MaxPulls == 2

\* Largest number of record arrays of a buffering store or of one append.
MaxArrays == 2
\* Largest number of records a record array of a buffering store holds.
MaxStoreLen == 4
\* Largest batchSize of an acquisition whose row split is followed.
MaxSplit == 4
\* Largest number of handles toShared is asked for.
MaxHandles == 2
\* Largest number of arrays mapped with fromShared.
MaxViews == 2
\* Largest number of arrays given to an augment.
MaxArity == 2
\* Number of different transforms func can return.
MaxSeed == 2
\* Largest nbytes of one decoded file.
MaxFileSize == 2
\* Largest maxSize of a file-backed store.
MaxBudget == 3

\* ------------------------------------------------------- program constants
\* mp.cpu_count() of the machine.
CpuCount == 3

\* queue.Queue(1) / mp.Queue(1): the capacity of batchQueue.
QueueSize == 1

VARIABLES
    strategy,     \* "thread" | "process": which generator was acquired
    mayFail,      \* whether the store's dataGen / the augments can raise
    maugs,        \* whether self.augments is non-empty
    batchSize,    \* the batchSize argument
    numWorkers,   \* numThreads / numProcs after min(batchSize, ...)
    isRunning,    \* the isRunning cell shared by the closure and the finally
    batchQueue,   \* the items of batchQueue, oldest first
    augs,         \* the output buffer(s) augs, row -> value
    inArrays,     \* process strategy: the shared input buffer, row -> value
    batch,        \* the producer's local batch (getRandomBatch's result)
    ppc,          \* where the producer thread _batchThread is
    spos,         \* thread strategy: index of the next worker to start
    wpc,          \* per chunk: "idle" | "run" | "done" | "dead"
    wpos,         \* per chunk: how many of its rows the worker has written
    pool,         \* process strategy: "none" | "up" | "terminated"
    outbox,       \* the item the producer has built and is putting
    cycleFailed,  \* a worker of the current cycle died of an exception
    cycles,       \* production cycles started so far
    published,    \* batches put on batchQueue so far
    cpc,          \* where the consumer is
    held,         \* the batch the consumer got from its last call, or NoBatch
    delivered,    \* serial numbers of the batches the calls returned, in order
    pulls,        \* calls of the generator made so far
    failure,      \* an exception of the producer thread: "none" | "uncaught" |
                  \* "caught" | "queued" | "raised" (by a call) | "drained"
    \* BufferDataSource
    bArrays,      \* self.arrays: per record array, its number of records
    bProbs,       \* self.selectProbs: NoProbs or the weight vector
    bRaised,       \* the last appendBuffer call raised
    fMaxSize,     \* FileDataSource.maxSize
    fSize,        \* path -> nbytes of the file's decoded record
    fCache,       \* the keys of imageCache in insertion order
    fCurrentSize, \* FileDataSource.currentSize
    fChosen,      \* chosenInds of the last fetch
    fOut,         \* the tuple the last fetch returned
    fStatus,      \* "new" | "returned" | "raised": how the last fetch ended
    fHist,        \* what the fetches so far loaded (see NoHistory)
    aDecl,        \* augment(prob, applyIndices): what the decorator was given
    aCall,        \* the prob / applyIndices keyword arguments of the last call
    aArgs,        \* the positional arguments (arrays) of the last call
    aOut,         \* what the last call returned
    aRun,         \* the last call: coin flips, func calls, whether skipped
    qStore,       \* acquisition: lengths of self.arrays, selectProbs' length
    qArgs,        \* which batch generator is called, and its arguments
    qPc,          \* where the call, and then the producer thread, is
    qCreated,     \* which of queue, buffers, thread the call has created
    qError,       \* the exception raised, and whether in the call
    qChunks,      \* threadIndices / procIndices
    qWorkers,     \* the chunks a worker thread was started for, this batch
    qOutOfRange,  \* whether a record was asked for at an index past the end
    shSrc,        \* the numpy array given to toShared
    shMem,        \* the RawArray blocks allocated so far (the handles)
    shViews,      \* the arrays fromShared has returned, in any process
    shLast,       \* the last write made through one of those arrays
    lGen,         \* localBatchGen: its arguments, its augs and where it is
    lRets,        \* what the calls of _getBatch returned, oldest first
    bUpd,         \* the appendBuffer / clearBuffer call in progress
    bGet,         \* the dataGen call in progress in the producer thread
    mBs,          \* MergeDataSource: batchSize given to its threadBatchGen
    chFails,      \* child -> whether the child's stop() raises
    mMain,        \* where the thread holding the merge generator is
    mProd,        \* where the merge generator's _batchThread is
    mCall,        \* where the _dataGen call in progress is ("none": no call)
    mReq,         \* the batchSize of the _dataGen call in progress
    mGen,         \* whether self.gen is not None
    mBatchSize,   \* self.batchSize
    gState,       \* the yieldData generator: "none" | "created" | "started"
    gPos,         \* yieldData: index of the next child to enter / to pull
    gParts,       \* yieldData: the list [g() for g in gens] built so far
    gYields,      \* number of values the yieldData generator has yielded
    chStatus,     \* child -> "none" | "live" | "released" | "failed" | "hung"
    chSize,       \* child -> batch size its generator was acquired at
    chTaken,      \* child -> batches taken from its generator
    chAcq,        \* child -> number of generators acquired from it
    mOut,         \* the tuple the last next(self.gen) returned
    mRunning,     \* isRunning of the merge generator
    mQueue,       \* number of items in the merge generator's batchQueue
    mCycles,      \* batches the merge generator's _batchThread has put
    mPulls        \* pulls made on the merge generator

\* The variables of a batch generator.
genVars == << strategy, mayFail, maugs, batchSize, numWorkers, isRunning,
              batchQueue, augs, inArrays, batch, ppc, spos, wpc, wpos, pool,
              outbox, cycleFailed, cycles, published, cpc, held, delivered,
              pulls, failure >>

\* The variables of a buffering store.
bufVars == << bArrays, bProbs, bRaised >>

\* What a batch generator on a plain DataSource never touches.
fileVars == << fMaxSize, fSize, fCache, fCurrentSize, fChosen, fOut, fStatus,
              fHist >>

mergeVars == << mBs, chFails, mMain, mProd, mCall, mReq, mGen, mBatchSize,
               gState, gPos, gParts, gYields, chStatus, chSize, chTaken,
               chAcq, mOut, mRunning, mQueue, mCycles, mPulls >>

augVars == << aDecl, aCall, aArgs, aOut, aRun >>

acqVars == << qStore, qArgs, qPc, qCreated, qError, qChunks, qWorkers,
             qOutOfRange >>

shVars == << shSrc, shMem, shViews, shLast >>

locVars == << lGen, lRets >>

raceVars == << bUpd, bGet >>

ext == << bufVars, fileVars, mergeVars, augVars, acqVars, shVars,
        locVars, raceVars >>

\* What the operations of one kind of object leave alone.
nonBuf == << genVars, fileVars, mergeVars, augVars, acqVars,
            shVars, locVars, raceVars >>

nonFile == << genVars, bufVars, mergeVars, augVars, acqVars,
            shVars, locVars, raceVars >>

nonMerge == << genVars, bufVars, fileVars, augVars, acqVars,
            shVars, locVars, raceVars >>

nonAug == << genVars, bufVars, fileVars, mergeVars, acqVars,
            shVars, locVars, raceVars >>

nonAcq == << genVars, bufVars, fileVars, mergeVars, augVars, shVars,
            locVars, raceVars >>

nonShared == << genVars, bufVars, fileVars, mergeVars, augVars, acqVars,
               locVars, raceVars >>

nonLocal == << genVars, bufVars, fileVars, mergeVars, augVars, acqVars,
              shVars, raceVars >>

\* What a buffering store and a producer fetching from it leave alone.
nonRace == << genVars, fileVars, mergeVars, augVars, acqVars, shVars,
             locVars >>

vars == << genVars, ext >>

\* ------------------------------------------------------------ pure helpers
Min(a, b) == IF a < b THEN a ELSE b

Rows(n) == 0 .. (n - 1)

\* The record array of the store the generators are acquired on: two
\* records, record i holding the value i + 1.
Store == [i \in {0, 1} |-> i + 1]

\* self.arrays[0].shape[0]
NumRecords == Cardinality(DOMAIN Store)

\* The value a consumer writes when it mutates a batch it was given.
Mutated == 0

\* What batchQueue carries and what a call hands to the consumer: kind is
\* "batch" (a tuple of arrays), "exc" (an exception object) or "none".
NoBatch == [kind |-> "none", arr |-> [ref |-> "own", data |-> << >>],
            serial |-> 0, snap |-> << >>, failed |-> FALSE]

\* getAugmentedArrays: the pipeline applied to one record (negation stands
\* for a non-empty pipeline, the empty pipeline returns its input).
getAugmentedArrays(m, v) == IF m THEN 0 - v ELSE v

\* localBatchGen._getBatch (the inline strategy): applyAugments over
\* range(batchSize) writes the pipeline's result for row i into row i.
LocalBatch(m, b) == [r \in DOMAIN b |-> getAugmentedArrays(m, b[r])]

\* defaultDataGen / getRandomBatch: every selection np.random.choice can
\* draw, as the rows a[chosenInds].
RandomBatches(n) == { [r \in Rows(n) |-> Store[ci[r]]] :
                        ci \in [Rows(n) -> Rows(NumRecords)] }

\* getIndexBatch(np.arange(batchSize)).
IndexBatch(n) == [r \in Rows(n) |-> Store[r]]

\* np.array_split(np.arange(n), k)[c]: the first n % k chunks hold
\* n \div k + 1 rows, the others n \div k.
ChunkStart(n, k, c) == c * (n \div k) + Min(c, n % k)
ChunkSizeFloor(n, k, c) == n \div k
ChunkSize(n, k, c) == (n \div k) + (IF c < n % k THEN 1 ELSE 0)
ArraySplit(n, k, c) == { r \in Rows(n) :
    /\ ChunkStart(n, k, c) <= r
    /\ r < ChunkStart(n, k, c) + ChunkSize(n, k, c) }

\* A worker that indexes the rows by its position in the chunk.
NthRowFromZero(S, p) == p

\* for i in indices: the row a worker visits after p rows of its chunk S.
NthRow(S, p) == CHOOSE r \in S : Cardinality({x \in S : x < r}) = p

Chunks == Rows(numWorkers)

\* ---------------------------------------------------------------- batches
\* A published array is either a fresh copy owning its data or a reference
\* to the output buffer augs itself.
ArrayCopy(a) == [ref |-> "own", data |-> a]

\* The tuple handed over without .copy(): the buffer itself.
CopyAugsAlias(a) == [ref |-> "augs", data |-> << >>]

\* a.copy() for a in augs
CopyAugs(a) == ArrayCopy(a)

Deref(arr) == IF arr.ref = "augs" THEN augs ELSE arr.data

\* The exception object e of "except Exception as e".
ExcItem == [kind |-> "exc", arr |-> [ref |-> "own", data |-> << >>],
            serial |-> 0, snap |-> << >>, failed |-> TRUE]

\* --------------------------------------------------------------- the queue
\* A put that never blocks (a queue without maxsize).
QueueCanPutAlways(q) == TRUE

\* Queue.put blocks while the queue holds maxsize items.
QueueCanPut(q) == Len(q) < QueueSize

\* Queue.get returns the oldest item and removes it.
QueueHead(q) == Head(q)
\* A get that leaves the item on the queue.
QueueRestKeep(q) == q

QueueRest(q) == Tail(q)

\* batchQueue.get(True) in the finally clause: block=True and no timeout,
\* so it returns only when an item is there (queue.Empty is never raised).
DrainCanReturn(q) == q # << >>

\* ------------------------------------------------- parts not in use
\* selectProbs=None
NoProbs == [given |-> FALSE, w |-> << >>]

\* No buffering store is in play.
BufIdle ==
    /\ bArrays = << >>
    /\ bProbs = NoProbs
    /\ bRaised = FALSE

\* No batch generator is in play.
\* The two file lists of the file-backed store, record -> path.
FileLists == << << 1, 2 >>, << 3, 4 >> >>

Paths == UNION {{FileLists[l][r] : r \in DOMAIN FileLists[l]} : l \in DOMAIN FileLists}

\* Largest number of indices of one fetch: as many as a list has records.
MaxFetch == Len(FileLists[1])

\* Nothing loaded yet. loaded: the paths the last fetch loaded, in order;
\* last: the path loaded last; first: the path loaded first of all, and
\* firstGone: whether that insertion was evicted; combined: the bytes
\* loaded so far, counted up to one more than the largest budget.
NoHistory ==
    [loaded |-> << >>, last |-> 0, first |-> 0, firstGone |-> FALSE,
     combined |-> 0]

\* prob or applyIndices not given.
NotGiven == [given |-> FALSE, v |-> 0]

NoIndices == [kind |-> "none", v |-> {}]

NoError == [kind |-> "none", where |-> "none"]

\* An array: its shape and its elements in C order.
NoArray == [shape |-> << >>, data |-> << >>]

NoWrite == [v |-> 0, i |-> 0, x |-> 0]

\* localBatchGen not called.
NoLocalGen == [pc |-> "none", batchSize |-> 0, maugs |-> FALSE, allocs |-> 0,
               augs |-> << >>]

LocalIdle ==
    /\ lGen = NoLocalGen
    /\ lRets = << >>

NoUpdate == [op |-> "none", i |-> 0, add |-> 0]

\* A dataGen call: the selectProbs it was handed (its length), the shape[0]
\* it drew the indices from and the largest index drawn, the list it
\* iterates (the store's own list while live, else the list it was), the
\* position in it, the lengths of the arrays indexed so far.
NoFetch == [pc |-> "none", probs |-> NotGiven, n |-> 0, top |-> 0,
            live |-> FALSE, list |-> << >>, j |-> 0, seen |-> << >>,
            error |-> "none"]

\* No buffering store is fetched from while it is updated.
RaceIdle ==
    /\ bUpd = NoUpdate
    /\ bGet = NoFetch

\* Nothing is shared.
BridgeIdle ==
    /\ shSrc = NoArray
    /\ shMem = << >>
    /\ shViews = << >>
    /\ shLast = NoWrite

\* No acquisition is followed.
AcqIdle ==
    /\ qStore = [lens |-> << >>, probs |-> NotGiven]
    /\ qArgs = [strategy |-> "none", batchSize |-> 0, requested |-> 0,
                platform |-> "linux"]
    /\ qPc = "none"
    /\ qCreated = {}
    /\ qError = NoError
    /\ qChunks = << >>
    /\ qWorkers = << >>
    /\ qOutOfRange = FALSE

\* No augment is in use.
AugIdle ==
    /\ aDecl = [prob |-> 5, idx |-> NoIndices]
    /\ aCall = [prob |-> NotGiven, idx |-> [kind |-> "absent", v |-> {}]]
    /\ aArgs = << >>
    /\ aOut = << >>
    /\ aRun = [done |-> FALSE, flips |-> 0, ops |-> 0, skipped |-> FALSE]

\* No file-backed store is in use.
FileIdle ==
    /\ fMaxSize = 0
    /\ fSize = [p \in Paths |-> 0]
    /\ fCache = << >>
    /\ fCurrentSize = 0
    /\ fChosen = << >>
    /\ fOut = << >>
    /\ fStatus = "new"
    /\ fHist = NoHistory

\* self.srcs: the children, and the number of arrays of a batch of each.
SrcArity == << 1, 2 >>

Srcs == DOMAIN SrcArity

NumSrcs == Len(SrcArity)

\* MergeDataSource.__init__: no group, batchSize 0; no generator acquired.
MergeFresh ==
    /\ mMain = "warm1"
    /\ mProd = "idle"
    /\ mCall = "none"
    /\ mReq = 0
    /\ mGen = FALSE
    /\ mBatchSize = 0
    /\ gState = "none"
    /\ gPos = 1
    /\ gParts = << >>
    /\ gYields = 0
    /\ chStatus = [c \in Srcs |-> "none"]
    /\ chSize = [c \in Srcs |-> 0]
    /\ chTaken = [c \in Srcs |-> 0]
    /\ chAcq = [c \in Srcs |-> 0]
    /\ mOut = << >>
    /\ mRunning = TRUE
    /\ mQueue = 0
    /\ mCycles = 0
    /\ mPulls = 0

\* No merging source is in use.
MergeIdle ==
    /\ mBs = 0
    /\ chFails = [c \in Srcs |-> FALSE]
    /\ MergeFresh

GenIdle ==
    /\ strategy = "none"
    /\ mayFail = FALSE
    /\ maugs = FALSE
    /\ batchSize = 0
    /\ numWorkers = 0
    /\ isRunning = FALSE
    /\ batchQueue = << >>
    /\ augs = << >>
    /\ inArrays = << >>
    /\ batch = << >>
    /\ ppc = "none"
    /\ spos = 0
    /\ wpc = << >>
    /\ wpos = << >>
    /\ pool = "none"
    /\ outbox = NoBatch
    /\ cycleFailed = FALSE
    /\ cycles = 0
    /\ published = << >>
    /\ cpc = "none"
    /\ held = NoBatch
    /\ delivered = << >>
    /\ pulls = 0
    /\ failure = "none"

\* ------------------------------------------------------------------- Init
\* The state right after acquisition: buffers allocated and warmed up, the
\* producer thread started, the consumer at the top of its scoped block.
InitCommon ==
    /\ BufIdle
    /\ AcqIdle
    /\ BridgeIdle
    /\ LocalIdle
    /\ RaceIdle
    /\ AugIdle
    /\ FileIdle
    /\ MergeIdle
    /\ mayFail \in BOOLEAN
    /\ maugs \in BOOLEAN
    /\ batchSize \in 1 .. MaxBatchSize
    /\ \E n \in 1 .. MaxBatchSize + 1 : numWorkers = Min(batchSize, n)
    /\ isRunning = TRUE
    /\ batchQueue = << >>
    /\ batch = << >>
    /\ spos = 0
    /\ wpc = [c \in Rows(numWorkers) |-> "idle"]
    /\ wpos = [c \in Rows(numWorkers) |-> 0]
    /\ outbox = NoBatch
    /\ cycleFailed = FALSE
    /\ cycles = 0
    /\ published = << >>
    /\ cpc = "body"
    /\ held = NoBatch
    /\ delivered = << >>
    /\ pulls = 0
    /\ failure = "none"

\* threadBatchGen up to its yield: augs is the warm-up batch of localBatchGen.
InitThread ==
    /\ strategy = "thread"
    /\ InitCommon
    /\ \E b \in RandomBatches(batchSize) :
          augs = [r \in Rows(batchSize) |-> getAugmentedArrays(maugs, b[r])]
    /\ inArrays = << >>
    /\ pool = "none"
    /\ ppc = "loop"

\* ------------------------------------------- threadBatchGen: _batchThread
\* A producer that tests isRunning with "if" and so runs one cycle only.
BatchThreadLoopOnce ==
    /\ strategy = "thread"
    /\ ppc = "loop"
    /\ IF isRunning /\ cycles = 0
         THEN cycles < MaxCycles /\ ppc' = "fetch"
         ELSE ppc' = "done"
    /\ UNCHANGED << ext, strategy, mayFail, maugs, batchSize, numWorkers, isRunning,
                    batchQueue, augs, inArrays, batch, spos, wpc, wpos, pool,
                    outbox, cycleFailed, cycles, published, cpc, held,
                    delivered, pulls, failure >>

\* A producer that loops with "while True" and never looks at isRunning.
BatchThreadLoopForever ==
    /\ strategy = "thread"
    /\ ppc = "loop"
    /\ cycles < MaxCycles
    /\ ppc' = "fetch"
    /\ UNCHANGED << ext, strategy, mayFail, maugs, batchSize, numWorkers, isRunning,
                    batchQueue, augs, inArrays, batch, spos, wpc, wpos, pool,
                    outbox, cycleFailed, cycles, published, cpc, held,
                    delivered, pulls, failure >>

\* while isRunning:
BatchThreadLoop ==
    /\ strategy = "thread"
    /\ ppc = "loop"
    /\ IF isRunning
         THEN cycles < MaxCycles /\ ppc' = "fetch"
         ELSE ppc' = "done"
    /\ UNCHANGED << ext, strategy, mayFail, maugs, batchSize, numWorkers, isRunning,
                    batchQueue, augs, inArrays, batch, spos, wpc, wpos, pool,
                    outbox, cycleFailed, cycles, published, cpc, held,
                    delivered, pulls, failure >>

\* threads=[]; batch=self.getRandomBatch(batchSize)
BatchThreadFetch ==
    /\ strategy = "thread"
    /\ ppc = "fetch"
    /\ \E b \in RandomBatches(batchSize) : batch' = b
    /\ cycles' = cycles + 1
    /\ cycleFailed' = FALSE
    /\ spos' = 0
    /\ wpc' = [c \in Chunks |-> "idle"]
    /\ wpos' = [c \in Chunks |-> 0]
    /\ ppc' = "start"
    /\ UNCHANGED << ext, strategy, mayFail, maugs, batchSize, numWorkers, isRunning,
                    batchQueue, augs, inArrays, pool, outbox, published, cpc,
                    held, delivered, pulls, failure >>

\* getRandomBatch raises in the producer thread: nothing catches it, the
\* thread ends.
BatchThreadFetchRaises ==
    /\ strategy = "thread"
    /\ ppc = "fetch"
    /\ mayFail
    /\ cycles' = cycles + 1
    /\ ppc' = "dead"
    /\ failure' = "uncaught"
    /\ UNCHANGED << ext, strategy, mayFail, maugs, batchSize, numWorkers, isRunning,
                    batchQueue, augs, inArrays, batch, spos, wpc, wpos, pool,
                    outbox, cycleFailed, published, cpc, held, delivered,
                    pulls >>

\* t=threading.Thread(target=self.applyAugments,...); t.start()
BatchThreadStart ==
    /\ strategy = "thread"
    /\ ppc = "start"
    /\ wpc' = [wpc EXCEPT ![spos] = "run"]
    /\ spos' = spos + 1
    /\ ppc' = IF spos + 1 = numWorkers THEN "join" ELSE "start"
    /\ UNCHANGED << ext, strategy, mayFail, maugs, batchSize, numWorkers, isRunning,
                    batchQueue, augs, inArrays, batch, wpos, pool, outbox,
                    cycleFailed, cycles, published, cpc, held, delivered,
                    pulls, failure >>

\* A join that does not wait for its thread.
JoinedNoWait(s) == TRUE

\* t.join() returns for a thread that finished or died.
Joined(s) == s \in {"done", "dead"}

\* for t in threads: t.join()
BatchThreadJoin ==
    /\ strategy = "thread"
    /\ ppc = "join"
    /\ \A c \in Chunks : Joined(wpc[c])
    /\ ppc' = "copy"
    /\ UNCHANGED << ext, strategy, mayFail, maugs, batchSize, numWorkers, isRunning,
                    batchQueue, augs, inArrays, batch, spos, wpc, wpos, pool,
                    outbox, cycleFailed, cycles, published, cpc, held,
                    delivered, pulls, failure >>

\* tuple(a.copy() for a in augs): the argument of batchQueue.put.
BatchThreadCopy ==
    /\ strategy = "thread"
    /\ ppc = "copy"
    /\ outbox' = [kind |-> "batch", arr |-> CopyAugs(augs), serial |-> cycles,
                  snap |-> augs, failed |-> cycleFailed]
    /\ ppc' = "put"
    /\ UNCHANGED << ext, strategy, mayFail, maugs, batchSize, numWorkers, isRunning,
                    batchQueue, augs, inArrays, batch, spos, wpc, wpos, pool,
                    cycleFailed, cycles, published, cpc, held, delivered,
                    pulls, failure >>

\* batchQueue.put(...)
BatchThreadPut ==
    /\ strategy = "thread"
    /\ ppc = "put"
    /\ QueueCanPut(batchQueue)
    /\ batchQueue' = Append(batchQueue, outbox)
    /\ published' = Append(published, outbox.serial)
    /\ outbox' = NoBatch
    /\ ppc' = "loop"
    /\ UNCHANGED << ext, strategy, mayFail, maugs, batchSize, numWorkers, isRunning,
                    augs, inArrays, batch, spos, wpc, wpos, pool, cycleFailed,
                    cycles, cpc, held, delivered, pulls, failure >>

\* ------------------------------------- applyAugments in a worker thread
\* One pass of "for i in indices": aug[i]=out for the row i.
ApplyAugmentsRow(c) ==
    /\ strategy = "thread"
    /\ wpc[c] = "run"
    /\ LET S == ArraySplit(batchSize, numWorkers, c)
           i == NthRow(S, wpos[c])
       IN /\ augs' = [augs EXCEPT ![i] = getAugmentedArrays(maugs, batch[i])]
          /\ wpos' = [wpos EXCEPT ![c] = wpos[c] + 1]
          /\ wpc' = [wpc EXCEPT ![c] =
                       IF wpos[c] + 1 = Cardinality(S) THEN "done" ELSE "run"]
    /\ UNCHANGED << ext, strategy, mayFail, maugs, batchSize, numWorkers, isRunning,
                    batchQueue, inArrays, batch, ppc, spos, pool, outbox,
                    cycleFailed, cycles, published, cpc, held, delivered,
                    pulls, failure >>

\* getAugmentedArrays raises in a worker thread: the thread ends, its
\* remaining rows keep what they held.
ApplyAugmentsRaises(c) ==
    /\ strategy = "thread"
    /\ mayFail
    /\ wpc[c] = "run"
    /\ wpc' = [wpc EXCEPT ![c] = "dead"]
    /\ cycleFailed' = TRUE
    /\ UNCHANGED << ext, strategy, mayFail, maugs, batchSize, numWorkers, isRunning,
                    batchQueue, augs, inArrays, batch, ppc, spos, wpos, pool,
                    outbox, cycles, published, cpc, held, delivered, pulls,
                    failure >>

\* ------------------------------------------------------------ the consumer
\* The consumer calls the generator it was yielded (batch=gen()); the batch
\* of its previous call is the one its variable is about to lose.
CallGen ==
    /\ cpc = "body"
    /\ pulls < MaxPulls
    /\ pulls' = pulls + 1
    /\ held' = NoBatch
    /\ cpc' = "pull"
    /\ UNCHANGED << ext, strategy, mayFail, maugs, batchSize, numWorkers, isRunning,
                    batchQueue, augs, inArrays, batch, ppc, spos, wpc, wpos,
                    pool, outbox, cycleFailed, cycles, published, delivered,
                    failure >>

\* thread strategy: the generator is batchQueue.get itself.
ThreadGet ==
    /\ strategy = "thread"
    /\ cpc = "pull"
    /\ batchQueue # << >>
    /\ held' = QueueHead(batchQueue)
    /\ batchQueue' = QueueRest(batchQueue)
    /\ delivered' = Append(delivered, QueueHead(batchQueue).serial)
    /\ cpc' = "body"
    /\ UNCHANGED << ext, strategy, mayFail, maugs, batchSize, numWorkers, isRunning,
                    augs, inArrays, batch, ppc, spos, wpc, wpos, pool, outbox,
                    cycleFailed, cycles, published, pulls, failure >>

\* The consumer writes into row 0 of the batch it was given.
ConsumerMutate ==
    /\ cpc = "body"
    /\ held.kind = "batch"
    /\ Deref(held.arr)[0] # Mutated
    /\ IF held.arr.ref = "own"
         THEN /\ held' = [held EXCEPT !.arr.data[0] = Mutated,
                                      !.snap[0] = Mutated]
              /\ augs' = augs
         ELSE /\ held' = [held EXCEPT !.snap[0] = Mutated]
              /\ augs' = [augs EXCEPT ![0] = Mutated]
    /\ UNCHANGED << ext, strategy, mayFail, maugs, batchSize, numWorkers, isRunning,
                    batchQueue, inArrays, batch, ppc, spos, wpc, wpos, pool,
                    outbox, cycleFailed, cycles, published, cpc, delivered,
                    pulls, failure >>

\* The scoped block is left: finally: isRunning=False; self.stop(...)
FinallyStop ==
    /\ cpc \in {"body", "raising"}
    /\ isRunning' = FALSE
    /\ cpc' = "drain"
    /\ UNCHANGED << ext, strategy, mayFail, maugs, batchSize, numWorkers,
                    batchQueue, augs, inArrays, batch, ppc, spos, wpc, wpos,
                    pool, outbox, cycleFailed, cycles, published, held,
                    delivered, pulls, failure >>

\* try: batchQueue.get(True) except queue.Empty: pass
FinallyDrain ==
    /\ cpc = "drain"
    /\ DrainCanReturn(batchQueue)
    /\ batchQueue' = IF batchQueue = << >> THEN batchQueue
                     ELSE QueueRest(batchQueue)
    /\ failure' = IF batchQueue # << >> /\ QueueHead(batchQueue).kind = "exc"
                     THEN "drained" ELSE failure
    /\ cpc' = "released"
    /\ UNCHANGED << ext, strategy, mayFail, maugs, batchSize, numWorkers, isRunning,
                    augs, inArrays, batch, ppc, spos, wpc, wpos, pool, outbox,
                    cycleFailed, cycles, published, held, delivered, pulls >>

NextThread ==
    \/ BatchThreadLoop
    \/ BatchThreadFetch
    \/ BatchThreadFetchRaises
    \/ BatchThreadStart
    \/ BatchThreadJoin
    \/ BatchThreadCopy
    \/ BatchThreadPut
    \/ \E c \in Chunks : ApplyAugmentsRow(c)
    \/ \E c \in Chunks : ApplyAugmentsRaises(c)
    \/ ThreadGet
    \/ CallGen
    \/ ConsumerMutate
    \/ FinallyStop
    \/ FinallyDrain

SpecThread == InitThread /\ [][NextThread]_vars

\* The thread strategy on a store and a pipeline that never raise, with the
\* scheduling of threads: a step of the producer thread, of a worker thread
\* or the return of a blocked batchQueue.get that stays possible is taken.
\* The consumer's own choices (to call, to write, to leave) are not forced.
InitThreadOk == InitThread /\ mayFail = FALSE

ThreadProgress ==
    \/ BatchThreadLoop
    \/ BatchThreadFetch
    \/ BatchThreadStart
    \/ BatchThreadJoin
    \/ BatchThreadCopy
    \/ BatchThreadPut
    \/ \E c \in Chunks : ApplyAugmentsRow(c)
    \/ ThreadGet

NextThreadOk ==
    \/ BatchThreadLoop
    \/ BatchThreadFetch
    \/ BatchThreadStart
    \/ BatchThreadJoin
    \/ BatchThreadCopy
    \/ BatchThreadPut
    \/ \E c \in Chunks : ApplyAugmentsRow(c)
    \/ ThreadGet
    \/ CallGen
    \/ ConsumerMutate
    \/ FinallyStop
    \/ FinallyDrain

FairSpecThread ==
    InitThreadOk /\ [][NextThreadOk]_vars /\ WF_vars(ThreadProgress)

\* FairSpecThread with the release carried through: once the scoped block is
\* left the main thread goes on to batchQueue.get(True), so that call
\* returns when it stays possible.
FairSpecRelease ==
    InitThreadOk /\ [][NextThreadOk]_vars /\ WF_vars(ThreadProgress)
                 /\ WF_vars(FinallyDrain)

\* ------------------------------------------------------- processBatchGen
\* processBatchGen up to its yield: augs is the shared copy of the warm-up
\* batch, inArrays the shared copy of getIndexBatch(np.arange(batchSize)),
\* which indexes the store and so needs batchSize <= NumRecords.
InitProcess ==
    /\ strategy = "process"
    /\ InitCommon
    /\ batchSize <= NumRecords
    /\ \E b \in RandomBatches(batchSize) :
          augs = [r \in Rows(batchSize) |-> getAugmentedArrays(maugs, b[r])]
    /\ inArrays = IndexBatch(batchSize)
    /\ pool = "none"
    /\ ppc = "init"

\* A _get that takes every payload for a batch.
IsTupleAlways(v) == TRUE

\* isinstance(v,tuple) in _get
IsTuple(v) == v.kind = "batch"

\* with mp.Pool(numProcs,initializer=initProc,initargs=initargs) as p:
ProcThreadPool ==
    /\ strategy = "process"
    /\ ppc = "init"
    /\ pool' = "up"
    /\ ppc' = "loop"
    /\ UNCHANGED << ext, strategy, mayFail, maugs, batchSize, numWorkers, isRunning,
                    batchQueue, augs, inArrays, batch, spos, wpc, wpos,
                    outbox, cycleFailed, cycles, published, cpc, held,
                    delivered, pulls, failure >>

\* mp.Pool(...) raises: the except clause takes it.
ProcThreadPoolRaises ==
    /\ strategy = "process"
    /\ ppc = "init"
    /\ mayFail
    /\ failure' = "caught"
    /\ ppc' = "except"
    /\ UNCHANGED << ext, strategy, mayFail, maugs, batchSize, numWorkers, isRunning,
                    batchQueue, augs, inArrays, batch, spos, wpc, wpos, pool,
                    outbox, cycleFailed, cycles, published, cpc, held,
                    delivered, pulls >>

\* while isRunning: and, when it ends, the exit of the with block, which
\* terminates the pool.
ProcThreadLoop ==
    /\ strategy = "process"
    /\ ppc = "loop"
    /\ IF isRunning
         THEN cycles < MaxCycles /\ ppc' = "fetch" /\ pool' = pool
         ELSE ppc' = "done" /\ pool' = "terminated"
    /\ UNCHANGED << ext, strategy, mayFail, maugs, batchSize, numWorkers, isRunning,
                    batchQueue, augs, inArrays, batch, spos, wpc, wpos,
                    outbox, cycleFailed, cycles, published, cpc, held,
                    delivered, pulls, failure >>

\* batch=self.getRandomBatch(batchSize); for a,b in zip(inArrays,batch):
\* a[...]=b; if maugs:
ProcThreadFetch ==
    /\ strategy = "process"
    /\ ppc = "fetch"
    /\ \E b \in RandomBatches(batchSize) : batch' = b /\ inArrays' = b
    /\ cycles' = cycles + 1
    /\ cycleFailed' = FALSE
    /\ wpc' = [c \in Chunks |-> "idle"]
    /\ wpos' = [c \in Chunks |-> 0]
    /\ ppc' = IF maugs THEN "map" ELSE "copy"
    /\ UNCHANGED << ext, strategy, mayFail, maugs, batchSize, numWorkers, isRunning,
                    batchQueue, augs, spos, pool, outbox, published, cpc,
                    held, delivered, pulls, failure >>

\* getRandomBatch raises: the with block is left (the pool terminated) and
\* the except clause takes the exception.
ProcThreadFetchRaises ==
    /\ strategy = "process"
    /\ ppc = "fetch"
    /\ mayFail
    /\ cycles' = cycles + 1
    /\ pool' = "terminated"
    /\ failure' = "caught"
    /\ ppc' = "except"
    /\ UNCHANGED << ext, strategy, mayFail, maugs, batchSize, numWorkers, isRunning,
                    batchQueue, augs, inArrays, batch, spos, wpc, wpos,
                    outbox, cycleFailed, published, cpc, held, delivered,
                    pulls >>

\* p.map(applyAugmentsProc,procIndices): one task per chunk is handed out.
ProcThreadMap ==
    /\ strategy = "process"
    /\ ppc = "map"
    /\ wpc' = [c \in Chunks |-> "run"]
    /\ ppc' = "wait"
    /\ UNCHANGED << ext, strategy, mayFail, maugs, batchSize, numWorkers, isRunning,
                    batchQueue, augs, inArrays, batch, spos, wpos, pool,
                    outbox, cycleFailed, cycles, published, cpc, held,
                    delivered, pulls, failure >>

\* applyAugmentsProc, one pass of "for i in indices": outa[i]=ina.
ApplyAugmentsProcRow(c) ==
    /\ strategy = "process"
    /\ wpc[c] = "run"
    /\ LET S == ArraySplit(batchSize, numWorkers, c)
           i == NthRow(S, wpos[c])
       IN /\ augs' = [augs EXCEPT ![i] = getAugmentedArrays(maugs, inArrays[i])]
          /\ wpos' = [wpos EXCEPT ![c] = wpos[c] + 1]
          /\ wpc' = [wpc EXCEPT ![c] =
                       IF wpos[c] + 1 = Cardinality(S) THEN "done" ELSE "run"]
    /\ UNCHANGED << ext, strategy, mayFail, maugs, batchSize, numWorkers, isRunning,
                    batchQueue, inArrays, batch, ppc, spos, pool, outbox,
                    cycleFailed, cycles, published, cpc, held, delivered,
                    pulls, failure >>

\* An augment raises in a pool task: the task ends with the exception.
ApplyAugmentsProcRaises(c) ==
    /\ strategy = "process"
    /\ mayFail
    /\ wpc[c] = "run"
    /\ wpc' = [wpc EXCEPT ![c] = "dead"]
    /\ cycleFailed' = TRUE
    /\ UNCHANGED << ext, strategy, mayFail, maugs, batchSize, numWorkers, isRunning,
                    batchQueue, augs, inArrays, batch, ppc, spos, wpos, pool,
                    outbox, cycles, published, cpc, held, delivered, pulls,
                    failure >>

\* p.map returns once every task has ended; it re-raises a task's exception,
\* which leaves the with block (the pool terminated) for the except clause.
ProcThreadMapReturns ==
    /\ strategy = "process"
    /\ ppc = "wait"
    /\ \A c \in Chunks : Joined(wpc[c])
    /\ IF \E c \in Chunks : wpc[c] = "dead"
         THEN ppc' = "except" /\ pool' = "terminated" /\ failure' = "caught"
         ELSE ppc' = "copy" /\ pool' = pool /\ failure' = failure
    /\ UNCHANGED << ext, strategy, mayFail, maugs, batchSize, numWorkers, isRunning,
                    batchQueue, augs, inArrays, batch, spos, wpc, wpos,
                    outbox, cycleFailed, cycles, published, cpc, held,
                    delivered, pulls >>

\* tuple(a.copy() for a in augs): the argument of batchQueue.put.
ProcThreadCopy ==
    /\ strategy = "process"
    /\ ppc = "copy"
    /\ outbox' = [kind |-> "batch", arr |-> CopyAugs(augs), serial |-> cycles,
                  snap |-> augs, failed |-> cycleFailed]
    /\ ppc' = "put"
    /\ UNCHANGED << ext, strategy, mayFail, maugs, batchSize, numWorkers, isRunning,
                    batchQueue, augs, inArrays, batch, spos, wpc, wpos, pool,
                    cycleFailed, cycles, published, cpc, held, delivered,
                    pulls, failure >>

\* batchQueue.put(...)
ProcThreadPut ==
    /\ strategy = "process"
    /\ ppc = "put"
    /\ QueueCanPut(batchQueue)
    /\ batchQueue' = Append(batchQueue, outbox)
    /\ published' = Append(published, outbox.serial)
    /\ outbox' = NoBatch
    /\ ppc' = "loop"
    /\ UNCHANGED << ext, strategy, mayFail, maugs, batchSize, numWorkers, isRunning,
                    augs, inArrays, batch, spos, wpc, wpos, pool, cycleFailed,
                    cycles, cpc, held, delivered, pulls, failure >>

\* except Exception as e: batchQueue.put(e); the thread then ends.
ProcThreadExcept ==
    /\ strategy = "process"
    /\ ppc = "except"
    /\ QueueCanPut(batchQueue)
    /\ batchQueue' = Append(batchQueue, ExcItem)
    /\ failure' = "queued"
    /\ ppc' = "done"
    /\ UNCHANGED << ext, strategy, mayFail, maugs, batchSize, numWorkers, isRunning,
                    augs, inArrays, batch, spos, wpc, wpos, pool, outbox,
                    cycleFailed, cycles, published, cpc, held, delivered,
                    pulls >>

\* _get: v=batchQueue.get(); if not isinstance(v,tuple): raise v; return v
ProcGet ==
    /\ strategy = "process"
    /\ cpc = "pull"
    /\ batchQueue # << >>
    /\ batchQueue' = QueueRest(batchQueue)
    /\ LET v == QueueHead(batchQueue)
       IN IF IsTuple(v)
            THEN /\ held' = v
                 /\ delivered' = Append(delivered, v.serial)
                 /\ cpc' = "body"
                 /\ failure' = failure
            ELSE /\ failure' = "raised"
                 /\ cpc' = "raising"
                 /\ UNCHANGED << held, delivered >>
    /\ UNCHANGED << ext, strategy, mayFail, maugs, batchSize, numWorkers, isRunning,
                    augs, inArrays, batch, ppc, spos, wpc, wpos, pool, outbox,
                    cycleFailed, cycles, published, pulls >>

NextProcess ==
    \/ ProcThreadPool
    \/ ProcThreadPoolRaises
    \/ ProcThreadLoop
    \/ ProcThreadFetch
    \/ ProcThreadFetchRaises
    \/ ProcThreadMap
    \/ ProcThreadMapReturns
    \/ ProcThreadCopy
    \/ ProcThreadPut
    \/ ProcThreadExcept
    \/ \E c \in Chunks : ApplyAugmentsProcRow(c)
    \/ \E c \in Chunks : ApplyAugmentsProcRaises(c)
    \/ ProcGet
    \/ CallGen
    \/ ConsumerMutate
    \/ FinallyStop
    \/ FinallyDrain

SpecProcess == InitProcess /\ [][NextProcess]_vars

\* Both strategies: a generator of either kind, acquired on the same store.
Init == InitThread \/ InitProcess

Next ==
    \/ BatchThreadLoop
    \/ BatchThreadFetch
    \/ BatchThreadFetchRaises
    \/ BatchThreadStart
    \/ BatchThreadJoin
    \/ BatchThreadCopy
    \/ BatchThreadPut
    \/ \E c \in Chunks : ApplyAugmentsRow(c)
    \/ \E c \in Chunks : ApplyAugmentsRaises(c)
    \/ ThreadGet
    \/ ProcThreadPool
    \/ ProcThreadPoolRaises
    \/ ProcThreadLoop
    \/ ProcThreadFetch
    \/ ProcThreadFetchRaises
    \/ ProcThreadMap
    \/ ProcThreadMapReturns
    \/ ProcThreadCopy
    \/ ProcThreadPut
    \/ ProcThreadExcept
    \/ \E c \in Chunks : ApplyAugmentsProcRow(c)
    \/ \E c \in Chunks : ApplyAugmentsProcRaises(c)
    \/ ProcGet
    \/ CallGen
    \/ ConsumerMutate
    \/ FinallyStop
    \/ FinallyDrain

Spec == Init /\ [][Next]_vars

\* ------------------------------------------------------ BufferDataSource
\* bufferSize()
bufferSize(arrs) == IF arrs = << >> THEN 0 ELSE arrs[1]

\* np.ones((size,))/size: size weights, each 1/size (kept as its
\* denominator).
UniformProbs(size) == [given |-> TRUE, w |-> [i \in 1 .. size |-> size]]

\* The arrays appendBuffer leaves behind and whether it raised: an empty
\* store takes the given arrays as they are; otherwise array i is
\* concatenated with arrays[i] for i in range(len(self.arrays)), and
\* arrays[i] raises IndexError when fewer arrays were given, after the
\* earlier ones have been replaced.
AppendArrays(arrs, given) ==
    IF arrs = << >>
      THEN [arrays |-> given, raised |-> FALSE]
      ELSE [arrays |-> [i \in 1 .. Len(arrs) |->
                          IF i <= Len(given) THEN arrs[i] + given[i]
                                             ELSE arrs[i]],
            raised |-> Len(given) < Len(arrs)]

\* A BufferDataSource as constructed: no arrays, or arrays of one length,
\* with no weights or uniform weights over its records.
InitBuffer ==
    /\ GenIdle
    /\ AcqIdle
    /\ BridgeIdle
    /\ LocalIdle
    /\ RaceIdle
    /\ AugIdle
    /\ FileIdle
    /\ MergeIdle
    /\ \E k \in 0 .. MaxArrays, n \in 0 .. MaxStoreLen :
          bArrays = [i \in 1 .. k |-> n]
    /\ bProbs \in {NoProbs, UniformProbs(bufferSize(bArrays))}
    /\ bRaised = FALSE

\* appendBuffer(*arrays): the arrays are replaced first; the weights are
\* rebuilt from arrays[0] only when nothing raised (arrays[0] itself raises
\* IndexError when the store is still empty).
appendBuffer ==
    /\ \E k \in 0 .. MaxArrays :
         \E given \in [1 .. k -> 0 .. MaxStoreLen] :
           LET res == AppendArrays(bArrays, given)
               raised == res.raised \/ (bProbs.given /\ res.arrays = << >>)
           IN /\ \A i \in DOMAIN res.arrays : res.arrays[i] <= MaxStoreLen
              /\ bArrays' = res.arrays
              /\ bRaised' = raised
              /\ bProbs' = IF ~ raised /\ bProbs.given
                             THEN UniformProbs(res.arrays[1])
                             ELSE bProbs
    /\ UNCHANGED << nonBuf >>

\* clearBuffer()
clearBuffer ==
    /\ IF bufferSize(bArrays) > 0
         THEN /\ bArrays' = << >>
              /\ bProbs' = IF bProbs.given
                             THEN [bProbs EXCEPT !.w = << >>]
                             ELSE bProbs
         ELSE UNCHANGED << bArrays, bProbs >>
    /\ bRaised' = FALSE
    /\ UNCHANGED << nonBuf >>

NextBuffer == appendBuffer \/ clearBuffer

SpecBuffer == InitBuffer /\ [][NextBuffer]_vars

\* -------------------------------------------------------- FileDataSource
\* loadFile(path): the decoded record of a file (not its path).
loadFile(path) == 10 + path

SeqRange(q) == {q[i] : i \in DOMAIN q}

\* A cache hit moves the file to the end of the cache.
getCachedFileRefresh(st, path) ==
    IF path \in SeqRange(st.cache)
      THEN [st EXCEPT !.cache = Append(SelectSeq(@, LAMBDA y : y # path), path)]
      ELSE [st EXCEPT !.cache = Append(@, path),
                      !.size = @ + fSize[path],
                      !.loaded = Append(@, path)]

\* _getCachedFile without its "if path not in self.imageCache": a cached
\* file is loaded and counted again.
getCachedFileCountHits(st, path) ==
    IF path \in SeqRange(st.cache)
      THEN [st EXCEPT !.size = @ + fSize[path]]
      ELSE [st EXCEPT !.cache = Append(@, path),
                      !.size = @ + fSize[path],
                      !.loaded = Append(@, path)]

\* _getCachedFile(path) on the cache st = [cache, size, loaded]: a file not
\* cached is loaded, counted and inserted last.
getCachedFile(st, path) ==
    IF path \in SeqRange(st.cache)
      THEN st
      ELSE [st EXCEPT !.cache = Append(@, path),
                      !.size = @ + fSize[path],
                      !.loaded = Append(@, path)]

\* The loop over one file list: out takes the shape of chosen[0], then every
\* chosen file is fetched through the cache and assigned into out; a file
\* of another shape raises at the assignment, after it was cached.
RECURSIVE LoadList(_, _, _)
LoadList(st, chosen, i) ==
    IF i > Len(chosen)
      THEN [st |-> st, raised |-> FALSE]
      ELSE LET st2 == getCachedFile(st, chosen[i])
           IN IF fSize[chosen[i]] # fSize[chosen[1]]
                THEN [st |-> st2, raised |-> TRUE]
                ELSE LoadList(st2, chosen, i + 1)

\* for arr in self.arrays, from list l on
RECURSIVE LoadLists(_, _, _)
LoadLists(st, inds, l) ==
    IF l > Len(FileLists)
      THEN [st |-> st, raised |-> FALSE]
      ELSE LET chosen == [i \in DOMAIN inds |-> FileLists[l][inds[i]]]
               res == LoadList(st, chosen, 1)
           IN IF res.raised THEN res ELSE LoadLists(res.st, inds, l + 1)

Without(q, x) == SelectSeq(q, LAMBDA y : y # x)

\* One eviction only, whatever is left over budget.
RemoveFilesOnce(st, candidates) ==
    IF candidates # << >> /\ st.size > fMaxSize
      THEN [st EXCEPT !.cache = Without(@, Head(candidates)),
                      !.size = @ - fSize[Head(candidates)]]
      ELSE st

\* The while loop of _removeFiles: the oldest candidate is evicted while
\* candidates remain and currentSize is over maxSize.
RECURSIVE RemoveFilesLoop(_, _)
RemoveFilesLoop(st, candidates) ==
    IF candidates # << >> /\ st.size > fMaxSize
      THEN RemoveFilesLoop([st EXCEPT !.cache = Without(@, Head(candidates)),
                                      !.size = @ - fSize[Head(candidates)]],
                           Tail(candidates))
      ELSE st

\* _removeFiles()
removeFiles(st) ==
    IF fMaxSize <= 0 THEN st ELSE RemoveFilesLoop(st, st.cache)

\* The cache and currentSize as a fetch finds them.
CacheNow == [cache |-> fCache, size |-> fCurrentSize, loaded |-> << >>]

\* The history after a fetch that left the cache as pre after its loads and
\* as post when it ended.
NextHistory(pre, post) ==
    LET first == IF fHist.first # 0 THEN fHist.first
                 ELSE IF pre.loaded # << >> THEN pre.loaded[1] ELSE 0
    IN [loaded |-> pre.loaded,
        last |-> IF pre.loaded # << >> THEN pre.loaded[Len(pre.loaded)]
                                       ELSE fHist.last,
        first |-> first,
        firstGone |-> \/ fHist.firstGone
                      \/ /\ first \in SeqRange(pre.cache)
                         /\ first \notin SeqRange(post.cache),
        combined |-> Min(fHist.combined + (pre.size - fCurrentSize),
                         MaxBudget + 1)]

\* FileDataSource.__init__: an empty cache, any budget (0: none), and any
\* sizes of the files on disk.
InitFile ==
    /\ GenIdle
    /\ AcqIdle
    /\ BridgeIdle
    /\ LocalIdle
    /\ RaceIdle
    /\ AugIdle
    /\ BufIdle
    /\ MergeIdle
    /\ fMaxSize \in 0 .. MaxBudget
    /\ fSize \in [Paths -> 1 .. MaxFileSize]
    /\ fCache = << >>
    /\ fCurrentSize = 0
    /\ fChosen = << >>
    /\ fOut = << >>
    /\ fStatus = "new"
    /\ fHist = NoHistory

\* _dataGen(chosenInds=inds) returning: every list's chosen files are copied
\* into its out array, then _removeFiles runs.
FileDataGen ==
    /\ \E n \in 1 .. MaxFetch :
         \E inds \in [1 .. n -> DOMAIN FileLists[1]] :
           LET res == LoadLists(CacheNow, inds, 1)
               st == removeFiles(res.st)
           IN /\ ~ res.raised
              /\ fChosen' = inds
              /\ fOut' = [l \in DOMAIN FileLists |->
                            [i \in DOMAIN inds |-> loadFile(FileLists[l][inds[i]])]]
              /\ fCache' = st.cache
              /\ fCurrentSize' = st.size
              /\ fStatus' = "returned"
              /\ fHist' = NextHistory(res.st, st)
    /\ UNCHANGED << nonFile, fMaxSize, fSize >>

\* _dataGen(chosenInds=inds) raising at out[i]=...: the files fetched so far
\* stay cached and _removeFiles does not run.
FileDataGenRaises ==
    /\ \E n \in 1 .. MaxFetch :
         \E inds \in [1 .. n -> DOMAIN FileLists[1]] :
           LET res == LoadLists(CacheNow, inds, 1)
           IN /\ res.raised
              /\ fChosen' = inds
              /\ fCache' = res.st.cache
              /\ fCurrentSize' = res.st.size
              /\ fStatus' = "raised"
              /\ fHist' = NextHistory(res.st, res.st)
    /\ UNCHANGED << nonFile, fMaxSize, fSize, fOut >>

NextFile == FileDataGen \/ FileDataGenRaises

SpecFile == InitFile /\ [][NextFile]_vars

\* ------------------------------------------------------- MergeDataSource
\* The batch a child's generator hands out on its n-th pull: SrcArity[c]
\* arrays, each tagged with the child, its position and the pull.
threadBatch(c, n) == [k \in 1 .. SrcArity[c] |-> << c, k, n >>]

\* The children's tuples joined last child first.
SumTuplesReversed(parts) ==
    LET F[i \in 0 .. Len(parts)] == IF i = 0 THEN << >> ELSE parts[i] \o F[i - 1]
    IN F[Len(parts)]

\* sum(parts, ()): the tuples joined left to right.
SumTuples(parts) ==
    LET F[i \in 0 .. Len(parts)] == IF i = 0 THEN << >> ELSE F[i - 1] \o parts[i]
    IN F[Len(parts)]

\* A new group only when none is live, whatever the batch size.
NeedNewGroupOnlyNone(gen, cur, req) == ~ gen

\* self.gen is None or self.batchSize!=batchSize
NeedNewGroup(gen, cur, req) == ~ gen \/ cur # req

\* Whether the thread inside next(self.gen) holds the generator.
Held == mCall \in {"enter", "while", "pull", "yield", "ret"}

\* The children whose release can wait for ever on its blocking
\* batchQueue.get(True) (0: none does); a child whose stop() raises never
\* reaches that get.
HangChoices == {0} \cup {c \in Srcs : chStatus[c] = "live" /\ ~ chFails[c]}

\* The ExitStack leaving the with block: the children are released last
\* entered first, a raising release does not keep the earlier ones from
\* running, a release that waits for ever (child h) does.
ExitStackClose(h) ==
    [c \in Srcs |->
       IF chStatus[c] # "live" THEN chStatus[c]
       ELSE IF c > h THEN (IF chFails[c] THEN "failed" ELSE "released")
       ELSE IF c = h THEN "hung"
       ELSE "live"]

\* The thread making the _dataGen call goes on after the call returned.
CallerProceeds ==
    IF mMain = "warm1" THEN mMain' = "warm2" /\ UNCHANGED mProd
    ELSE IF mMain = "warm2" THEN mMain' = "warmstop" /\ UNCHANGED mProd
    ELSE mProd' = "aug" /\ UNCHANGED mMain

\* The thread making the _dataGen call ends ("dead") or waits for ever
\* ("hung") inside the call.
CallerStops(how) ==
    IF mMain \in {"warm1", "warm2"}
      THEN mMain' = how /\ UNCHANGED mProd
      ELSE mProd' = how /\ UNCHANGED mMain

\* A MergeDataSource over the children, and threadBatchGen(mBs) called on it.
InitMerge ==
    /\ GenIdle
    /\ AcqIdle
    /\ BridgeIdle
    /\ LocalIdle
    /\ RaceIdle
    /\ AugIdle
    /\ BufIdle
    /\ FileIdle
    /\ mBs \in 1 .. MaxBatchSize
    /\ chFails \in [Srcs -> BOOLEAN]
    /\ MergeFresh

\* localBatchGen of the merge generator: getIndexBatch([0]), then
\* gen() -> getRandomBatch(batchSize); each enters _dataGen.
MainWarmCall ==
    /\ mMain \in {"warm1", "warm2"}
    /\ mCall = "none"
    /\ mCall' = "set"
    /\ mReq' = IF mMain = "warm1" THEN 1 ELSE mBs
    /\ UNCHANGED << nonMerge, mBs, chFails, mMain, mProd,
                    mGen, mBatchSize, gState, gPos, gParts, gYields, chStatus,
                    chSize, chTaken, chAcq, mOut, mRunning, mQueue, mCycles,
                    mPulls >>

\* _setBatchSize(batchSize); rebinding self.gen drops the suspended
\* generator of the old group, whose with block then releases the children.
MergeSetBatchSize ==
    /\ mCall = "set"
    /\ IF NeedNewGroup(mGen, mBatchSize, mReq)
         THEN /\ mBatchSize' = mReq
              /\ mGen' = TRUE
              /\ gState' = "created"
              /\ gYields' = 0
              /\ IF gState = "started"
                   THEN \E h \in HangChoices :
                          /\ chStatus' = ExitStackClose(h)
                          /\ IF h = 0
                               THEN mCall' = "next" /\ UNCHANGED << mMain, mProd >>
                               ELSE mCall' = "none" /\ CallerStops("hung")
                   ELSE /\ mCall' = "next"
                        /\ UNCHANGED << chStatus, mMain, mProd >>
         ELSE /\ mCall' = "next"
              /\ UNCHANGED << mBatchSize, mGen, gState, gYields, chStatus,
                              mMain, mProd >>
    /\ UNCHANGED << nonMerge, mBs, chFails, mReq, gPos,
                    gParts, chSize, chTaken, chAcq, mOut, mRunning, mQueue,
                    mCycles, mPulls >>

\* next(self.gen): TypeError when self.gen is None by now; else the
\* generator starts, or resumes after its yield.
MergeNext ==
    /\ mCall = "next"
    /\ IF ~ mGen
         THEN /\ mCall' = "none"
              /\ CallerStops("dead")
              /\ UNCHANGED << gState, gPos >>
         ELSE /\ mCall' = IF gState = "created" THEN "enter" ELSE "while"
              /\ gState' = "started"
              /\ gPos' = 1
              /\ UNCHANGED << mMain, mProd >>
    /\ UNCHANGED << nonMerge, mBs, chFails, mReq, mGen,
                    mBatchSize, gParts, gYields, chStatus, chSize, chTaken,
                    chAcq, mOut, mRunning, mQueue, mCycles, mPulls >>

\* gens=[stack.enter_context(s.threadBatchGen(self.batchSize,...)) ...]:
\* the next child's generator is acquired.
YieldDataEnter ==
    /\ mCall = "enter"
    /\ chStatus' = [chStatus EXCEPT ![gPos] = "live"]
    /\ chSize' = [chSize EXCEPT ![gPos] = mBatchSize]
    /\ chTaken' = [chTaken EXCEPT ![gPos] = 0]
    /\ chAcq' = [chAcq EXCEPT ![gPos] = @ + 1]
    /\ IF gPos = NumSrcs
         THEN mCall' = "while" /\ gPos' = 1
         ELSE gPos' = gPos + 1 /\ UNCHANGED mCall
    /\ UNCHANGED << nonMerge, mBs, chFails, mMain, mProd,
                    mReq, mGen, mBatchSize, gState, gParts, gYields, mOut,
                    mRunning, mQueue, mCycles, mPulls >>

\* while self.gen is not None: (true)
YieldDataWhile ==
    /\ mCall = "while"
    /\ mGen
    /\ mCall' = "pull"
    /\ gPos' = 1
    /\ gParts' = << >>
    /\ UNCHANGED << nonMerge, mBs, chFails, mMain, mProd,
                    mReq, mGen, mBatchSize, gState, gYields, chStatus, chSize,
                    chTaken, chAcq, mOut, mRunning, mQueue, mCycles, mPulls >>

\* while self.gen is not None: (false) the with block is left, the
\* generator returns and next() raises StopIteration in the calling thread.
YieldDataExit ==
    /\ mCall = "while"
    /\ ~ mGen
    /\ \E h \in HangChoices :
         /\ chStatus' = ExitStackClose(h)
         /\ CallerStops(IF h = 0 THEN "dead" ELSE "hung")
    /\ gState' = "none"
    /\ mCall' = "none"
    /\ UNCHANGED << nonMerge, mBs, chFails, mReq, mGen,
                    mBatchSize, gPos, gParts, gYields, chSize, chTaken, chAcq,
                    mOut, mRunning, mQueue, mCycles, mPulls >>

\* [g() for g in gens]: one batch is taken from the next child.
YieldDataPull ==
    /\ mCall = "pull"
    /\ gParts' = Append(gParts, threadBatch(gPos, chTaken[gPos] + 1))
    /\ chTaken' = [chTaken EXCEPT ![gPos] = @ + 1]
    /\ IF gPos = NumSrcs
         THEN mCall' = "yield" /\ gPos' = 1
         ELSE gPos' = gPos + 1 /\ UNCHANGED mCall
    /\ UNCHANGED << nonMerge, mBs, chFails, mMain, mProd,
                    mReq, mGen, mBatchSize, gState, gYields, chStatus, chSize,
                    chAcq, mOut, mRunning, mQueue, mCycles, mPulls >>

\* yield sum([...],())
YieldDataYield ==
    /\ mCall = "yield"
    /\ mOut' = SumTuples(gParts)
    /\ gYields' = gYields + 1
    /\ mCall' = "ret"
    /\ UNCHANGED << nonMerge, mBs, chFails, mMain, mProd,
                    mReq, mGen, mBatchSize, gState, gPos, gParts, chStatus,
                    chSize, chTaken, chAcq, mRunning, mQueue, mCycles, mPulls >>

\* return next(self.gen): the caller's reference to the generator goes; if
\* self.gen is None by now it was the last one and the suspended generator
\* is closed, releasing the children in the calling thread.
MergeDataGenReturn ==
    /\ mCall = "ret"
    /\ mCall' = "none"
    /\ IF mGen
         THEN /\ CallerProceeds
              /\ UNCHANGED << chStatus, gState >>
         ELSE /\ gState' = "none"
              /\ \E h \in HangChoices :
                   /\ chStatus' = ExitStackClose(h)
                   /\ IF h = 0 THEN CallerProceeds ELSE CallerStops("hung")
    /\ UNCHANGED << nonMerge, mBs, chFails, mReq, mGen,
                    mBatchSize, gPos, gParts, gYields, chSize, chTaken, chAcq,
                    mOut, mRunning, mQueue, mCycles, mPulls >>

\* MergeDataSource.stop as called from localBatchGen's finally
\* (self.stop('local')): self.gen=None closes the suspended generator.
MainWarmStop ==
    /\ mMain = "warmstop"
    /\ mGen' = FALSE
    /\ gState' = "none"
    /\ IF gState = "started"
         THEN \E h \in HangChoices :
                /\ chStatus' = ExitStackClose(h)
                /\ mMain' = IF h = 0 THEN "start" ELSE "hung"
         ELSE mMain' = "start" /\ UNCHANGED chStatus
    /\ UNCHANGED << nonMerge, mBs, chFails, mProd, mCall,
                    mReq, mBatchSize, gPos, gParts, gYields, chSize, chTaken,
                    chAcq, mOut, mRunning, mQueue, mCycles, mPulls >>

\* batchThread.start(), then yield batchQueue.get
MainStart ==
    /\ mMain = "start"
    /\ mMain' = "body"
    /\ mProd' = "loop"
    /\ UNCHANGED << nonMerge, mBs, chFails, mCall, mReq,
                    mGen, mBatchSize, gState, gPos, gParts, gYields, chStatus,
                    chSize, chTaken, chAcq, mOut, mRunning, mQueue, mCycles,
                    mPulls >>

\* A pull on the merge generator: batchQueue.get()
MainGet ==
    /\ mMain = "body"
    /\ mQueue = 1
    /\ mPulls < MaxPulls
    /\ mQueue' = 0
    /\ mPulls' = mPulls + 1
    /\ UNCHANGED << nonMerge, mBs, chFails, mMain, mProd,
                    mCall, mReq, mGen, mBatchSize, gState, gPos, gParts,
                    gYields, chStatus, chSize, chTaken, chAcq, mOut, mRunning,
                    mCycles >>

\* finally: isRunning=False
MainFinallyFlag ==
    /\ mMain = "body"
    /\ mRunning' = FALSE
    /\ mMain' = "fin_stop"
    /\ UNCHANGED << nonMerge, mBs, chFails, mProd, mCall,
                    mReq, mGen, mBatchSize, gState, gPos, gParts, gYields,
                    chStatus, chSize, chTaken, chAcq, mOut, mQueue, mCycles,
                    mPulls >>

\* finally: self.stop('thread') -> self.gen=None; a generator no thread is
\* inside of is closed here, one _batchThread is inside of stays.
MainFinallyStop ==
    /\ mMain = "fin_stop"
    /\ mGen' = FALSE
    /\ IF Held
         THEN mMain' = "fin_drain" /\ UNCHANGED << gState, chStatus >>
         ELSE /\ gState' = "none"
              /\ IF gState = "started"
                   THEN \E h \in HangChoices :
                          /\ chStatus' = ExitStackClose(h)
                          /\ mMain' = IF h = 0 THEN "fin_drain" ELSE "hung"
                   ELSE mMain' = "fin_drain" /\ UNCHANGED chStatus
    /\ UNCHANGED << nonMerge, mBs, chFails, mProd, mCall,
                    mReq, mBatchSize, gPos, gParts, gYields, chSize, chTaken,
                    chAcq, mOut, mRunning, mQueue, mCycles, mPulls >>

\* finally: batchQueue.get(True), waiting for an item
MainFinallyDrain ==
    /\ mMain = "fin_drain"
    /\ mQueue = 1
    /\ mQueue' = 0
    /\ mMain' = "released"
    /\ UNCHANGED << nonMerge, mBs, chFails, mProd, mCall,
                    mReq, mGen, mBatchSize, gState, gPos, gParts, gYields,
                    chStatus, chSize, chTaken, chAcq, mOut, mRunning, mCycles,
                    mPulls >>

\* _batchThread: while isRunning: (true) batch=self.getRandomBatch(batchSize)
MergeThreadLoop ==
    /\ mProd = "loop"
    /\ mRunning
    /\ mCycles < MaxCycles
    /\ mProd' = "call"
    /\ mCall' = "set"
    /\ mReq' = mBs
    /\ UNCHANGED << nonMerge, mBs, chFails, mMain, mGen,
                    mBatchSize, gState, gPos, gParts, gYields, chStatus,
                    chSize, chTaken, chAcq, mOut, mRunning, mQueue, mCycles,
                    mPulls >>

\* _batchThread: while isRunning: (false)
MergeThreadEnds ==
    /\ mProd = "loop"
    /\ ~ mRunning
    /\ mProd' = "done"
    /\ UNCHANGED << nonMerge, mBs, chFails, mMain, mCall,
                    mReq, mGen, mBatchSize, gState, gPos, gParts, gYields,
                    chStatus, chSize, chTaken, chAcq, mOut, mRunning, mQueue,
                    mCycles, mPulls >>

\* _batchThread: the applyAugments threads are started and joined
MergeThreadAugment ==
    /\ mProd = "aug"
    /\ mProd' = "put"
    /\ UNCHANGED << nonMerge, mBs, chFails, mMain, mCall,
                    mReq, mGen, mBatchSize, gState, gPos, gParts, gYields,
                    chStatus, chSize, chTaken, chAcq, mOut, mRunning, mQueue,
                    mCycles, mPulls >>

\* _batchThread: batchQueue.put(...), waiting for the slot
MergeThreadPut ==
    /\ mProd = "put"
    /\ mQueue < QueueSize
    /\ mQueue' = mQueue + 1
    /\ mCycles' = mCycles + 1
    /\ mProd' = "loop"
    /\ UNCHANGED << nonMerge, mBs, chFails, mMain, mCall,
                    mReq, mGen, mBatchSize, gState, gPos, gParts, gYields,
                    chStatus, chSize, chTaken, chAcq, mOut, mRunning, mPulls >>

NextMerge ==
    \/ MainWarmCall
    \/ MergeSetBatchSize
    \/ MergeNext
    \/ YieldDataEnter
    \/ YieldDataWhile
    \/ YieldDataExit
    \/ YieldDataPull
    \/ YieldDataYield
    \/ MergeDataGenReturn
    \/ MainWarmStop
    \/ MainStart
    \/ MainGet
    \/ MainFinallyFlag
    \/ MainFinallyStop
    \/ MainFinallyDrain
    \/ MergeThreadLoop
    \/ MergeThreadEnds
    \/ MergeThreadAugment
    \/ MergeThreadPut

SpecMerge == InitMerge /\ [][NextMerge]_vars

\* ---------------------------------------------------------------- augment
\* The prob values tried, in tenths: 0.0, 0.5, 1.0.
Probs == {0, 5, 10}

\* The arrays given to an augment: array i, not yet transformed.
Images(n) == [i \in 0 .. n - 1 |-> [im |-> i + 1, by |-> 0]]

\* The prob declared is used even when the call gives one.
EffectiveProbDeclared(decl, call) == decl

\* kwargs.pop('prob',prob)
EffectiveProb(decl, call) == IF call.given THEN call.v ELSE decl

\* kwargs.pop('applyIndices',applyIndices)
EffectiveIndices(decl, call) == IF call.kind = "absent" THEN decl ELSE call

\* list(_applyIndices or range(len(args))): None and an empty collection are
\* both false.
TargetIndices(idx, n) ==
    IF idx.kind = "none" \/ idx.v = {} THEN 0 .. n - 1 ELSE idx.v

\* op(im): the array transformed by the transform built from seed.
ApplyOp(seed, im) == [im EXCEPT !.by = seed]

\* func is called again for every position, on the next random draw.
BuildOutPerPosition(args, indices, seeds) ==
    [out |-> [i \in DOMAIN args |->
                IF i \in indices THEN ApplyOp(seeds[i + 1], args[i]) ELSE args[i]],
     ops |-> Cardinality(indices \cap DOMAIN args)]

\* op=func(*args,**kwargs) once, on the first random draw; then
\* tuple((op(im) if i in indices else im) for i,im in enumerate(args))
BuildOut(args, indices, seeds) ==
    [out |-> [i \in DOMAIN args |->
                IF i \in indices THEN ApplyOp(seeds[1], args[i]) ELSE args[i]],
     ops |-> 1]

\* The keyword arguments a call can give.
CallKwargs ==
    [prob : {NotGiven} \cup [given : {TRUE}, v : Probs],
     idx : {[kind |-> "absent", v |-> {}], NoIndices}
             \cup [kind : {"set"}, v : SUBSET (0 .. MaxArity - 1)]]

\* @augment(prob, applyIndices) applied to some func; no call made yet.
\* Calls share no state, so one call of the augment is followed.
InitAugment ==
    /\ GenIdle
    /\ AcqIdle
    /\ BridgeIdle
    /\ LocalIdle
    /\ RaceIdle
    /\ BufIdle
    /\ FileIdle
    /\ MergeIdle
    /\ aDecl \in [prob : Probs,
                  idx : {NoIndices} \cup [kind : {"set"}, v : SUBSET (0 .. MaxArity - 1)]]
    /\ aCall = [prob |-> NotGiven, idx |-> [kind |-> "absent", v |-> {}]]
    /\ aArgs = << >>
    /\ aOut = << >>
    /\ aRun = [done |-> FALSE, flips |-> 0, ops |-> 0, skipped |-> FALSE]

\* _func(*args,**kwargs) returning args: _prob<1.0 and randChoice(_prob)
\* came out false.
AugmentSkipped ==
    /\ ~ aRun.done
    /\ \E n \in 1 .. MaxArity, kw \in CallKwargs :
         /\ EffectiveProb(aDecl.prob, kw.prob) < 10
         /\ aCall' = kw
         /\ aArgs' = Images(n)
         /\ aOut' = Images(n)
         /\ aRun' = [done |-> TRUE, flips |-> 1, ops |-> 0, skipped |-> TRUE]
    /\ UNCHANGED << nonAug, aDecl >>

\* _func(*args,**kwargs) applying the transform: _prob is 1.0 or more (no
\* coin), or randChoice(_prob) came out true.
AugmentApplied ==
    /\ ~ aRun.done
    /\ \E n \in 1 .. MaxArity, kw \in CallKwargs,
          seeds \in [1 .. MaxArity -> 1 .. MaxSeed] :
         LET p == EffectiveProb(aDecl.prob, kw.prob)
             indices == TargetIndices(EffectiveIndices(aDecl.idx, kw.idx), n)
             res == BuildOut(Images(n), indices, seeds)
         IN /\ aCall' = kw
            /\ aArgs' = Images(n)
            /\ aOut' = res.out
            /\ aRun' = [done |-> TRUE, flips |-> IF p < 10 THEN 1 ELSE 0,
                        ops |-> res.ops, skipped |-> FALSE]
    /\ UNCHANGED << nonAug, aDecl >>

NextAugment == AugmentSkipped \/ AugmentApplied

SpecAugment == InitAugment /\ [][NextAugment]_vars

\* ------------------------------------------------ acquiring a generator
\* Every platform passes.
PlatformOkAlways(platform) == TRUE

\* platform.system().lower()!='windows'
PlatformOk(platform) == platform # "windows"

\* min(batchSize,numThreads or mp.cpu_count())
NumWorkers(bs, requested) ==
    Min(bs, IF requested = 0 THEN CpuCount ELSE requested)

\* np.array_split(np.arange(batchSize),numThreads)
SplitIndices(n, k) == [c \in 1 .. k |-> ArraySplit(n, k, c - 1)]

\* Whether a[chosenInds] raises IndexError for some array when top is the
\* largest index chosen.
PastEnd(top) == \E a \in DOMAIN qStore.lens : top >= qStore.lens[a]

\* A store of one or two arrays of any lengths, with or without weights, and
\* a call of localBatchGen, threadBatchGen or processBatchGen on it.
InitAcquire ==
    /\ GenIdle
    /\ BufIdle
    /\ FileIdle
    /\ MergeIdle
    /\ AugIdle
    /\ BridgeIdle
    /\ LocalIdle
    /\ RaceIdle
    /\ \E k \in 1 .. 2 :
         qStore \in [lens : [1 .. k -> 0 .. NumRecords],
                     probs : {NotGiven} \cup [given : {TRUE}, v : 0 .. NumRecords]]
    /\ qArgs \in [strategy : {"local", "thread", "process"},
                  batchSize : 1 .. MaxSplit,
                  requested : 0 .. MaxSplit + 1,
                  platform : {"linux", "windows"}]
    /\ qArgs.strategy # "process" => qArgs.platform = "linux"
    /\ qArgs.strategy = "local" => qArgs.requested = 0
    /\ qPc = CASE qArgs.strategy = "process" -> "platform"
               [] qArgs.strategy = "thread" -> "split"
               [] OTHER -> "warm"
    /\ qCreated = {}
    /\ qError = NoError
    /\ qChunks = << >>
    /\ qWorkers = << >>
    /\ qOutOfRange = FALSE

\* processBatchGen: assert platform.system().lower()!='windows', '...'
AcqPlatform ==
    /\ qPc = "platform"
    /\ IF PlatformOk(qArgs.platform)
         THEN qPc' = "split" /\ UNCHANGED qError
         ELSE /\ qPc' = "failed"
              /\ qError' = [kind |-> "AssertionError", where |-> "acquire"]
    /\ UNCHANGED << nonAcq, qStore, qArgs, qCreated, qChunks, qWorkers,
                    qOutOfRange >>

\* numThreads=min(...); threadIndices=np.array_split(...); isRunning=True;
\* batchQueue=queue.Queue(1)
AcqSplit ==
    /\ qPc = "split"
    /\ qChunks' = SplitIndices(qArgs.batchSize,
                               NumWorkers(qArgs.batchSize, qArgs.requested))
    /\ qCreated' = qCreated \cup {"queue"}
    /\ qPc' = "warm"
    /\ UNCHANGED << nonAcq, qStore, qArgs, qError, qWorkers, qOutOfRange >>

\* localBatchGen: inArrays=self.getIndexBatch([0]) -> a[[0]] for every
\* array; then augs is allocated.
AcqWarmIndex ==
    /\ qPc = "warm"
    /\ IF PastEnd(0)
         THEN /\ qOutOfRange' = TRUE
              /\ qError' = [kind |-> "IndexError", where |-> "acquire"]
              /\ qPc' = "failed"
              /\ UNCHANGED qCreated
         ELSE /\ qCreated' = qCreated \cup {"augs"}
              /\ qPc' = IF qArgs.strategy = "local" THEN "acquired" ELSE "random"
              /\ UNCHANGED << qOutOfRange, qError >>
    /\ UNCHANGED << nonAcq, qStore, qArgs, qChunks, qWorkers >>

\* Whether np.random.choice(N,batchSize,p=selectProbs) raises ValueError:
\* p given and not of length N.
ChoiceRaises == qStore.probs.given /\ qStore.probs.v # qStore.lens[1]

\* augs=gen() -> getRandomBatch(batchSize) returning
AcqWarmRandom ==
    /\ qPc = "random"
    /\ ~ ChoiceRaises
    /\ \E top \in 0 .. qStore.lens[1] - 1 : ~ PastEnd(top)
    /\ qPc' = IF qArgs.strategy = "process" THEN "index" ELSE "start"
    /\ UNCHANGED << nonAcq, qStore, qArgs, qCreated, qError, qChunks,
                    qWorkers, qOutOfRange >>

\* augs=gen() -> getRandomBatch(batchSize) raising: ValueError from
\* np.random.choice, or IndexError from a[chosenInds]
AcqWarmRandomRaises ==
    /\ qPc = "random"
    /\ IF ChoiceRaises
         THEN /\ qError' = [kind |-> "ValueError", where |-> "acquire"]
              /\ UNCHANGED qOutOfRange
         ELSE /\ \E top \in 0 .. qStore.lens[1] - 1 : PastEnd(top)
              /\ qError' = [kind |-> "IndexError", where |-> "acquire"]
              /\ qOutOfRange' = TRUE
    /\ qPc' = "failed"
    /\ UNCHANGED << nonAcq, qStore, qArgs, qCreated, qChunks, qWorkers >>

\* processBatchGen: inArrays=tuple(map(toShared,
\* self.getIndexBatch(np.arange(batchSize))))
AcqIndexBatch ==
    /\ qPc = "index"
    /\ IF PastEnd(qArgs.batchSize - 1)
         THEN /\ qOutOfRange' = TRUE
              /\ qError' = [kind |-> "IndexError", where |-> "acquire"]
              /\ qPc' = "failed"
              /\ UNCHANGED qCreated
         ELSE /\ qCreated' = qCreated \cup {"inArrays"}
              /\ qPc' = "start"
              /\ UNCHANGED << qOutOfRange, qError >>
    /\ UNCHANGED << nonAcq, qStore, qArgs, qChunks, qWorkers >>

\* batchThread.start(); the generator is handed to the caller
AcqThreadStart ==
    /\ qPc = "start"
    /\ qCreated' = qCreated \cup {"thread"}
    /\ qPc' = IF qArgs.strategy = "thread" THEN "fetch" ELSE "acquired"
    /\ UNCHANGED << nonAcq, qStore, qArgs, qError, qChunks, qWorkers,
                    qOutOfRange >>

\* _batchThread: batch=self.getRandomBatch(batchSize) returning
AcqProducerFetch ==
    /\ qPc = "fetch"
    /\ \E top \in 0 .. qStore.lens[1] - 1 : ~ PastEnd(top)
    /\ qWorkers' = << >>
    /\ qPc' = "workers"
    /\ UNCHANGED << nonAcq, qStore, qArgs, qCreated, qError, qChunks,
                    qOutOfRange >>

\* _batchThread: batch=self.getRandomBatch(batchSize) raising IndexError;
\* nothing catches it and the thread ends
AcqProducerFetchRaises ==
    /\ qPc = "fetch"
    /\ \E top \in 0 .. qStore.lens[1] - 1 : PastEnd(top)
    /\ qOutOfRange' = TRUE
    /\ qError' = [kind |-> "IndexError", where |-> "producer"]
    /\ qPc' = "dead"
    /\ UNCHANGED << nonAcq, qStore, qArgs, qCreated, qChunks, qWorkers >>

\* _batchThread: for indices in threadIndices: t=threading.Thread(...);
\* t.start()
AcqProducerStartWorker ==
    /\ qPc = "workers"
    /\ Len(qWorkers) < Len(qChunks)
    /\ qWorkers' = Append(qWorkers, qChunks[Len(qWorkers) + 1])
    /\ UNCHANGED << nonAcq, qStore, qArgs, qPc, qCreated, qError, qChunks,
                    qOutOfRange >>

\* _batchThread: the workers are joined and the batch is put
AcqProducerJoin ==
    /\ qPc = "workers"
    /\ Len(qWorkers) = Len(qChunks)
    /\ qPc' = "joined"
    /\ UNCHANGED << nonAcq, qStore, qArgs, qCreated, qError, qChunks,
                    qWorkers, qOutOfRange >>

\* _batchThread: while isRunning: the next batch
AcqProducerLoop ==
    /\ qPc = "joined"
    /\ qPc' = "fetch"
    /\ UNCHANGED << nonAcq, qStore, qArgs, qCreated, qError, qChunks,
                    qWorkers, qOutOfRange >>

NextAcquire ==
    \/ AcqPlatform
    \/ AcqSplit
    \/ AcqWarmIndex
    \/ AcqWarmRandom
    \/ AcqWarmRandomRaises
    \/ AcqIndexBatch
    \/ AcqThreadStart
    \/ AcqProducerFetch
    \/ AcqProducerFetchRaises
    \/ AcqProducerStartWorker
    \/ AcqProducerJoin
    \/ AcqProducerLoop

SpecAcquire == InitAcquire /\ [][NextAcquire]_vars

\* ------------------------------------------- toShared / fromShared / initProc
\* The shapes of the arrays followed: one or two dimensions, two elements.
Shapes == { << 2 >>, << 1, 2 >>, << 2, 1 >> }

RECURSIVE Product(_)
Product(sh) == IF sh = << >> THEN 1 ELSE Head(sh) * Product(Tail(sh))

\* carr=np.ctypeslib.as_ctypes(array): a nested ctypes array over array's
\* own memory: len(carr) is shape[0], carr._type_ the type of one row.
as_ctypes(array) ==
    [len |-> Head(array.shape), type |-> Tail(array.shape), ref |-> "src",
     cells |-> array.data]

\* sharedctypes.RawArray(type_, initializer): a new block of len(initializer)
\* elements of type_, filled from the initializer.
RawArray(type_, initializer) ==
    [len |-> initializer.len, rowShape |-> type_, ref |-> "shm",
     cells |-> initializer.cells, written |-> FALSE]

toShared(array) ==
    LET carr == as_ctypes(array)
    IN RawArray(carr.type, carr)

\* fromShared with np.array(array): the result owns a copy of the block.
fromSharedCopy(h) ==
    [h |-> h, shape |-> << shMem[h].len >> \o shMem[h].rowShape, ref |-> "own",
     data |-> IF shMem[h].ref = "src" THEN shSrc.data ELSE shMem[h].cells]

\* np.ctypeslib.as_array(array): an array of the ctypes object's shape over
\* the object's memory.
fromShared(h) ==
    [h |-> h, shape |-> << shMem[h].len >> \o shMem[h].rowShape, ref |-> "map",
     data |-> << >>]

\* The elements of block h.
Cells(h) == IF shMem[h].ref = "src" THEN shSrc.data ELSE shMem[h].cells

\* What the array v reads as.
ViewArray(v) ==
    [shape |-> v.shape, data |-> IF v.ref = "own" THEN v.data ELSE Cells(v.h)]

\* An array of one of the shapes with elements 0 or 1.
InitBridge ==
    /\ GenIdle
    /\ BufIdle
    /\ FileIdle
    /\ MergeIdle
    /\ AugIdle
    /\ AcqIdle
    /\ LocalIdle
    /\ RaceIdle
    /\ \E sh \in Shapes :
         shSrc \in [shape : {sh}, data : [1 .. Product(sh) -> 0 .. 1]]
    /\ shMem = << >>
    /\ shViews = << >>
    /\ shLast = NoWrite

\* handle=toShared(array)
ToShared ==
    /\ Len(shMem) < MaxHandles
    /\ shMem' = Append(shMem, toShared(shSrc))
    /\ UNCHANGED << nonShared, shSrc, shViews, shLast >>

\* fromShared(handle), in the parent or through initProc in a subprocess.
FromShared ==
    /\ Len(shViews) < MaxViews
    /\ \E h \in DOMAIN shMem : shViews' = Append(shViews, fromShared(h))
    /\ UNCHANGED << nonShared, shSrc, shMem, shLast >>

\* view[i]=x for one of the arrays fromShared returned.
WriteView ==
    \E v \in DOMAIN shViews, x \in 0 .. 1 :
      \E i \in 1 .. Product(shViews[v].shape) :
        LET view == shViews[v]
            h == view.h
        IN /\ ViewArray(view).data[i] # x
           /\ shLast' = [v |-> v, i |-> i, x |-> x]
           /\ IF view.ref = "own"
                 THEN /\ shViews' = [shViews EXCEPT ![v].data[i] = x]
                      /\ UNCHANGED << shMem, shSrc >>
                 ELSE IF shMem[h].ref = "src"
                   THEN /\ shSrc' = [shSrc EXCEPT !.data[i] = x]
                        /\ shMem' = [shMem EXCEPT ![h].written = TRUE]
                        /\ UNCHANGED shViews
                   ELSE /\ shMem' = [shMem EXCEPT ![h].cells[i] = x,
                                                  ![h].written = TRUE]
                        /\ UNCHANGED << shViews, shSrc >>
           /\ UNCHANGED nonShared

NextBridge ==
    \/ ToShared
    \/ FromShared
    \/ WriteView

SpecBridge == InitBridge /\ [][NextBridge]_vars

\* --------------------------------------------------------- localBatchGen
\* np.zeros((batchSize,)+a.shape,a.dtype): a new array of batchSize rows.
Zeros(n) == [r \in Rows(n) |-> 0]

\* What the array arr handed out by _getBatch reads as now.
LocalDeref(arr) == IF arr.ref = "augs" THEN lGen.augs ELSE arr.data

\* _getBatch ending with "return tuple(a.copy() for a in augs)".
GetBatchReturnCopy(a) == [ref |-> "own", data |-> a, snap |-> a]

\* return augs: the buffers themselves; snap is what they held at the return.
GetBatchReturn(a) == [ref |-> "augs", data |-> << >>, snap |-> a]

\* A store of two records, any batchSize, with or without augments, and
\* localBatchGen(batchSize) about to be entered.
InitLocal ==
    /\ GenIdle
    /\ BufIdle
    /\ FileIdle
    /\ MergeIdle
    /\ AugIdle
    /\ AcqIdle
    /\ BridgeIdle
    /\ RaceIdle
    /\ lGen \in [pc : {"new"}, batchSize : 1 .. MaxBatchSize,
                  maugs : BOOLEAN, allocs : {0}, augs : {<< >>}]
    /\ lRets = << >>

\* with localBatchGen(batchSize) as gen: the warm-up fetch of index 0, then
\* augs=tuple(np.zeros(...) for a in augTest), then the yield.
LocalAcquire ==
    /\ lGen.pc = "new"
    /\ lGen' = [lGen EXCEPT !.pc = "body",
                            !.allocs = @ + 1,
                            !.augs = Zeros(lGen.batchSize)]
    /\ UNCHANGED << nonLocal, lRets >>

\* gen(): batch=self.getRandomBatch(batchSize); applyAugments writes every
\* row of augs; return augs.
LocalGetBatch ==
    /\ lGen.pc = "body"
    /\ Len(lRets) < MaxPulls
    /\ \E b \in RandomBatches(lGen.batchSize) :
         LET out == LocalBatch(lGen.maugs, b)
         IN /\ lGen' = [lGen EXCEPT !.augs = out]
            /\ lRets' = Append(lRets, GetBatchReturn(out))
    /\ UNCHANGED nonLocal

\* The scoped block is left: finally: self.stop('local')
LocalRelease ==
    /\ lGen.pc = "body"
    /\ lGen' = [lGen EXCEPT !.pc = "released"]
    /\ UNCHANGED << nonLocal, lRets >>

NextLocal ==
    \/ LocalAcquire
    \/ LocalGetBatch
    \/ LocalRelease

SpecLocal == InitLocal /\ [][NextLocal]_vars

\* ------------------ BufferDataSource updated while a producer fetches
\* A store of arrays of one length, with or without weights; a producer
\* thread of threadBatchGen between two fetches, no update under way.
InitRace ==
    /\ GenIdle
    /\ FileIdle
    /\ MergeIdle
    /\ AugIdle
    /\ AcqIdle
    /\ BridgeIdle
    /\ LocalIdle
    /\ \E k \in 0 .. MaxArrays, n \in 1 .. MaxStoreLen :
          bArrays = [i \in 1 .. k |-> n]
    /\ bProbs \in {NoProbs, UniformProbs(bufferSize(bArrays))}
    /\ bRaised = FALSE
    /\ bUpd = NoUpdate
    /\ bGet = [NoFetch EXCEPT !.pc = "idle"]

\* self.arrays is bound to another list: a tuple(... for a in self.arrays)
\* under way keeps the list it started on.
Rebound(g) ==
    IF g.live THEN [g EXCEPT !.live = FALSE, !.list = bArrays] ELSE g

\* appendBuffer(*arrays) entered with as many arrays as the store holds, all
\* of one length: "if not self.arrays: self.arrays=list(arrays)", else the
\* loop is reached.
RaceAppendCall ==
    /\ bUpd.op = "none"
    /\ \E add \in 1 .. MaxStoreLen :
         /\ bufferSize(bArrays) + add <= MaxStoreLen
         /\ IF bArrays = << >>
              THEN /\ bArrays' = [i \in 1 .. MaxArrays |-> add]
                   /\ bGet' = Rebound(bGet)
                   /\ bUpd' = [op |-> "probs", i |-> 0, add |-> add]
              ELSE /\ bUpd' = [op |-> "append", i |-> 1, add |-> add]
                   /\ UNCHANGED << bArrays, bGet >>
    /\ UNCHANGED << nonRace, bProbs, bRaised >>

\* self.arrays[i]=np.concatenate([self.arrays[i],arrays[i]]): one pass of
\* the loop, an item assignment on the store's list.
RaceAppendStep ==
    /\ bUpd.op = "append"
    /\ bArrays' = [bArrays EXCEPT ![bUpd.i] = @ + bUpd.add]
    /\ bUpd' = IF bUpd.i = Len(bArrays)
                 THEN [bUpd EXCEPT !.op = "probs"]
                 ELSE [bUpd EXCEPT !.i = @ + 1]
    /\ UNCHANGED << nonRace, bProbs, bRaised, bGet >>

\* if self.selectProbs is not None: size=...; self.selectProbs=np.ones(...)/size
RaceAppendProbs ==
    /\ bUpd.op = "probs"
    /\ bProbs' = IF bProbs.given THEN UniformProbs(bArrays[1]) ELSE bProbs
    /\ bUpd' = NoUpdate
    /\ UNCHANGED << nonRace, bArrays, bRaised, bGet >>

\* clearBuffer(): if self.bufferSize()>0: self.arrays=[]
RaceClearCall ==
    /\ bUpd.op = "none"
    /\ IF bufferSize(bArrays) > 0
         THEN /\ bArrays' = << >>
              /\ bGet' = Rebound(bGet)
              /\ bUpd' = [op |-> "clearprobs", i |-> 0, add |-> 0]
         ELSE UNCHANGED << bArrays, bGet, bUpd >>
    /\ UNCHANGED << nonRace, bProbs, bRaised >>

\* if self.selectProbs is not None: self.selectProbs=self.selectProbs[:0]
RaceClearProbs ==
    /\ bUpd.op = "clearprobs"
    /\ bProbs' = IF bProbs.given THEN [bProbs EXCEPT !.w = << >>] ELSE bProbs
    /\ bUpd' = NoUpdate
    /\ UNCHANGED << nonRace, bArrays, bRaised, bGet >>

\* _batchThread: batch=self.getRandomBatch(batchSize), which reads
\* self.selectProbs and hands it to dataGen.
RaceFetchCall ==
    /\ bGet.pc \in {"idle", "done"}
    /\ bGet' = [NoFetch EXCEPT !.pc = "choice",
                               !.probs = IF bProbs.given
                                           THEN [given |-> TRUE, v |-> Len(bProbs.w)]
                                           ELSE NotGiven]
    /\ UNCHANGED << nonRace, bufVars, bUpd >>

\* chosenInds=np.random.choice(self.arrays[0].shape[0],batchSize,p=selectProbs)
\* returning: arrays[0] exists, is not empty, and p has its length.
RaceFetchChoice ==
    /\ bGet.pc = "choice"
    /\ bArrays # << >>
    /\ bGet.probs.given => bGet.probs.v = bArrays[1]
    /\ \E top \in 0 .. bArrays[1] - 1 :
         bGet' = [bGet EXCEPT !.pc = "iter", !.n = bArrays[1], !.top = top]
    /\ UNCHANGED << nonRace, bufVars, bUpd >>

\* The same statement raising: IndexError from self.arrays[0] on an empty
\* list, ValueError from np.random.choice when p has another length. The
\* exception ends the producer thread.
RaceFetchChoiceRaises ==
    /\ bGet.pc = "choice"
    /\ \/ bArrays = << >>
       \/ bArrays # << >> /\ bGet.probs.given /\ bGet.probs.v # bArrays[1]
    /\ bGet' = [bGet EXCEPT !.pc = "raised",
                            !.n = bufferSize(bArrays),
                            !.error = IF bArrays = << >> THEN "IndexError"
                                                         ELSE "ValueError"]
    /\ UNCHANGED << nonRace, bufVars, bUpd >>

\* tuple(a[chosenInds] for a in self.arrays): self.arrays is read once, for
\* the iterator.
RaceFetchIter ==
    /\ bGet.pc = "iter"
    /\ bGet' = [bGet EXCEPT !.pc = "index", !.live = TRUE, !.j = 1]
    /\ UNCHANGED << nonRace, bufVars, bUpd >>

\* The list the iterator is on, as it is now.
FetchList(g) == IF g.live THEN bArrays ELSE g.list

\* One a[chosenInds] of the iteration, or its end: the tuple is returned.
RaceFetchIndex ==
    /\ bGet.pc = "index"
    /\ LET list == FetchList(bGet)
       IN IF bGet.j > Len(list)
            THEN bGet' = [bGet EXCEPT !.pc = "done", !.live = FALSE,
                                      !.list = list]
            ELSE /\ bGet.top < list[bGet.j]
                 /\ bGet' = [bGet EXCEPT !.j = @ + 1,
                                         !.seen = Append(@, list[bGet.j])]
    /\ UNCHANGED << nonRace, bufVars, bUpd >>

\* a[chosenInds] raising IndexError: an index drawn is past the end of a.
RaceFetchIndexRaises ==
    /\ bGet.pc = "index"
    /\ LET list == FetchList(bGet)
       IN /\ bGet.j <= Len(list)
          /\ bGet.top >= list[bGet.j]
          /\ bGet' = [bGet EXCEPT !.pc = "raised", !.live = FALSE,
                                  !.list = list,
                                  !.seen = Append(@, list[bGet.j]),
                                  !.error = "IndexError"]
    /\ UNCHANGED << nonRace, bufVars, bUpd >>

NextRace ==
    \/ RaceAppendCall
    \/ RaceAppendStep
    \/ RaceAppendProbs
    \/ RaceClearCall
    \/ RaceClearProbs
    \/ RaceFetchCall
    \/ RaceFetchChoice
    \/ RaceFetchChoiceRaises
    \/ RaceFetchIter
    \/ RaceFetchIndex
    \/ RaceFetchIndexRaises

SpecRace == InitRace /\ [][NextRace]_vars

\* ================================================================= claims
QueueItems == { batchQueue[i] : i \in 1 .. Len(batchQueue) }

\* The producer thread has ended (returned, or died of an exception).
ProducerEnded == ppc \in {"done", "dead"}

\* C1: thread strategy: the release sequence completes; in particular it is
\* never left waiting in its drain step on an empty slot that no producer
\* will fill any more (the producer thread has ended).
C1_ReleaseReturns ==
    ~ ( /\ strategy = "thread"
        /\ cpc = "drain"
        /\ batchQueue = << >>
        /\ ProducerEnded )

\* C2: process strategy: after a call has raised the worker failure, the
\* release that follows returns; it is never left waiting in its drain step
\* on an empty slot after the producer thread has ended.
C2_ReleaseAfterFailureReturns ==
    ~ ( /\ strategy = "process"
        /\ failure = "raised"
        /\ cpc = "drain"
        /\ batchQueue = << >>
        /\ ProducerEnded )

\* C3: the slot never holds more than one item, and a producer that has its
\* next batch ready while the slot is full cannot complete its put.
C3_AtMostOnePending ==
    /\ Len(batchQueue) \in {0, 1}
    /\ (ppc = "put" /\ Len(batchQueue) = 1)
          => ~ ENABLED (BatchThreadPut \/ ProcThreadPut)

C3_Witness == ppc = "put" /\ Len(batchQueue) = 1 /\ outbox.kind = "batch"

\* C4: every batch put together for the slot, pending in it or handed to the
\* consumer owns its arrays (it is not the output buffer augs) and holds what
\* it held when it was copied, changed only by the consumer's own writes.
OwnAndIntact(b) ==
    b.kind = "batch" => (b.arr.ref = "own" /\ Deref(b.arr) = b.snap)

C4_CopyCrossesSlot ==
    /\ \A b \in QueueItems : OwnAndIntact(b)
    /\ OwnAndIntact(held)
    /\ OwnAndIntact(outbox)

\* A delivered batch the consumer has written to, a later batch pending in
\* the slot and unaffected by that write, and the output buffer already
\* holding other contents than the delivered batch.
C4_Witness ==
    /\ held.kind = "batch"
    /\ held.snap[0] = Mutated
    /\ batchQueue # << >>
    /\ Head(batchQueue).kind = "batch"
    /\ Head(batchQueue).snap[0] # Mutated
    /\ Head(batchQueue).serial > held.serial
    /\ [held.snap EXCEPT ![0] = augs[0]] # augs

\* C5: thread strategy: workers alive at the same time write disjoint rows,
\* and the producer copies augs for publication only when every worker of
\* the cycle has been started and has ended.
C5_DisjointRowsAndBarrier ==
    strategy = "thread" =>
      /\ \A c1, c2 \in Chunks :
            (c1 # c2 /\ wpc[c1] = "run" /\ wpc[c2] = "run")
               => ArraySplit(batchSize, numWorkers, c1)
                    \cap ArraySplit(batchSize, numWorkers, c2) = {}
      /\ ppc = "copy" => \A c \in Chunks : wpc[c] \in {"done", "dead"}

\* The producer at its copy after two workers have written both rows.
C5_Witness ==
    /\ strategy = "thread"
    /\ ppc = "copy"
    /\ numWorkers = 2
    /\ \A c \in Chunks : wpc[c] = "done"
    /\ augs = [r \in Rows(batchSize) |-> getAugmentedArrays(maugs, batch[r])]

\* C6: process strategy: an exception in the producer thread never ends the
\* thread uncaught; it is caught, then put on the slot as an exception object;
\* a call never hands an exception object to the consumer as a batch, and each
\* finished call has either returned a batch or raised the exception.
C6_FailureThroughSlot ==
    strategy = "process" =>
      /\ ppc # "dead"
      /\ failure # "uncaught"
      /\ (failure = "caught") <=> (ppc = "except")
      /\ (failure = "queued") <=> (\E b \in QueueItems : b.kind = "exc")
      /\ held.kind \in {"none", "batch"}
      /\ pulls = Len(delivered) + (IF failure = "raised" THEN 1 ELSE 0)
                                + (IF cpc = "pull" THEN 1 ELSE 0)

\* A call returned a batch and a later call raised the producer's failure.
C6_Witness ==
    /\ strategy = "process"
    /\ failure = "raised"
    /\ Len(delivered) >= 1

\* C7: thread strategy: a failure in a production cycle reaches the consumer
\* as a failure value: the batch of a cycle in which a worker failed is not
\* on the slot or delivered as data, and a call is never left waiting on an
\* empty slot after the producer thread died of the failure.
C7_FailureReported ==
    strategy = "thread" =>
      /\ \A b \in QueueItems : b.kind = "batch" => ~ b.failed
      /\ held.kind = "batch" => ~ held.failed
      /\ ~ (cpc = "pull" /\ batchQueue = << >> /\ ppc = "dead")

\* C8: thread strategy: when release has returned the producer thread has
\* ended and no worker thread is running.
C8_ReleaseJoinsProducer ==
    (strategy = "thread" /\ cpc = "released") =>
      /\ ProducerEnded
      /\ \A c \in Chunks : wpc[c] # "run"

\* C9: process strategy: when release has returned no pool is left up and
\* the producer thread has ended; and whenever the producer thread has ended
\* no pool is left up.
C9_ReleaseTearsDownPool ==
    strategy = "process" =>
      /\ cpc = "released" => (ProducerEnded /\ pool # "up")
      /\ ProducerEnded => pool # "up"

\* C10: the k-th call that returns a batch returns the k-th batch the
\* producer put on the slot, and the producer puts each batch once, in the
\* order of the production cycles.
C10_ProductionOrder ==
    /\ Len(delivered) <= Len(published)
    /\ \A i \in 1 .. Len(delivered) : delivered[i] = published[i]
    /\ \A i, j \in 1 .. Len(published) : i < j => published[i] < published[j]

\* Two calls have returned the first two batches.
C10_Witness == Len(delivered) >= 2

\* C11: thread strategy: the batches completed and not yet taken are at most
\* the one pending in the slot and the one the producer is putting; the
\* producer has started at most two cycles more than items were taken; and
\* while it is blocked in its put on a full slot the producer starts no cycle
\* and no worker runs.
C11_Backpressure ==
    strategy = "thread" =>
      /\ Len(batchQueue) + (IF outbox.kind = "batch" THEN 1 ELSE 0) <= 2
      /\ cycles <= (Len(published) - Len(batchQueue)) + 2
      /\ (ppc = "put" /\ Len(batchQueue) = 1) =>
            /\ ~ ENABLED (BatchThreadPut \/ BatchThreadLoop \/ BatchThreadFetch
                          \/ BatchThreadStart)
            /\ \A c \in Chunks : wpc[c] # "run"

\* The consumer has never called: one batch pending, the second one ready,
\* the producer blocked.
C11_Witness ==
    /\ strategy = "thread"
    /\ pulls = 0
    /\ cpc = "body"
    /\ cycles = 2
    /\ Len(batchQueue) = 1
    /\ ppc = "put"

\* C12: with a non-empty pipeline, the batch either strategy has copied for
\* publication (in a cycle without failure) equals row by row what the
\* inline strategy computes from the same selection: row i is the pipeline
\* applied to the record at selection index i.
C12_SameRowsAsInline ==
    (maugs /\ ppc = "put" /\ outbox.kind = "batch" /\ ~ outbox.failed) =>
      /\ DOMAIN outbox.snap = Rows(batchSize)
      /\ outbox.snap = LocalBatch(maugs, batch)
      /\ Deref(outbox.arr) = LocalBatch(maugs, batch)

\* A batch of two different records written by two workers, ready to be put.
C12_Witness ==
    /\ maugs
    /\ ppc = "put"
    /\ ~ outbox.failed
    /\ batchSize = 2
    /\ numWorkers = 2
    /\ batch[0] # batch[1]
    /\ cycles = 2
    /\ outbox.snap = LocalBatch(maugs, batch)

\* C13: process strategy with an empty pipeline: no task is dispatched and
\* the batch copied for publication equals the selection just written into
\* the shared input buffers.
C13_EmptyPipelinePublishesSelection ==
    (strategy = "process" /\ ~ maugs /\ ppc = "put") =>
      /\ \A c \in Chunks : wpc[c] = "idle"
      /\ outbox.snap = inArrays

\* C14: thread strategy, non-failing store and pipeline: every call made in
\* the scoped block returns a batch of batchSize rows.
C14_PullReturns ==
    (cpc = "pull") ~>
       (cpc = "body" /\ held.kind = "batch"
                     /\ DOMAIN Deref(held.arr) = Rows(batchSize))

\* The second of two successive calls has returned its batch.
C14_Witness ==
    /\ cpc = "body"
    /\ Len(delivered) = 2
    /\ held.kind = "batch"
    /\ held.serial = 2

\* C18: after any appends and clears all record arrays of a buffering store
\* hold the same number of records.
C18_SameLeadingDimension ==
    \A i, j \in DOMAIN bArrays : bArrays[i] = bArrays[j]

\* C19: a buffering store with selection weights: after any appends and
\* clears the weight vector has bufferSize() entries, each 1/bufferSize().
C19_WeightsMatchBufferSize ==
    bProbs.given =>
      /\ Len(bProbs.w) = bufferSize(bArrays)
      /\ \A i \in DOMAIN bProbs.w : bProbs.w[i] = bufferSize(bArrays)

\* The bytes of the records in the cache, counted from the files themselves.
RECURSIVE CachedBytes(_)
CachedBytes(q) == IF q = << >> THEN 0 ELSE fSize[Head(q)] + CachedBytes(Tail(q))

\* C20: file-backed store with a byte budget: when a fetch has returned the
\* cached records total at most the budget, and the returned batch holds the
\* records of the chosen files of every list, evicted or not.
C20_CacheWithinBudget ==
    (fStatus = "returned" /\ fMaxSize > 0) =>
      /\ CachedBytes(fCache) <= fMaxSize
      /\ fCurrentSize = CachedBytes(fCache)
      /\ Len(fOut) = Len(FileLists)
      /\ \A l \in DOMAIN FileLists :
           /\ DOMAIN fOut[l] = DOMAIN fChosen
           /\ \A i \in DOMAIN fChosen :
                fOut[l][i] = loadFile(FileLists[l][fChosen[i]])

\* A fetch returned two different records of a list and eviction removed
\* a file of the returned batch while keeping another file.
C20_Witness ==
    /\ fStatus = "returned"
    /\ fMaxSize > 0
    /\ fCache # << >>
    /\ Len(fChosen) = 2
    /\ fChosen[1] # fChosen[2]
    /\ \E l \in DOMAIN FileLists :
         FileLists[l][fChosen[1]] \notin SeqRange(fCache)

\* C15: once the release of a Merging Source's generator has completed and
\* its producer thread has ended, no child generator is live: every one
\* acquired was released, and none was acquired after the release.
C15_ReleasePropagated ==
    (mMain = "released" /\ mProd \in {"done", "dead"}) =>
      \A c \in Srcs : chStatus[c] # "live"

\* Number of arrays of the children before child c.
ArityBefore(c) ==
    LET F[i \in 0 .. NumSrcs] == IF i = 0 THEN 0 ELSE F[i - 1] + SrcArity[i]
    IN F[c - 1]

\* The child whose arrays hold position i of the merged tuple.
ChildAt(i) ==
    CHOOSE c \in Srcs : ArityBefore(c) < i /\ i <= ArityBefore(c) + SrcArity[c]

\* C16: when a pull on the Merging Source's group returns, one more batch
\* was taken from every child, and the tuple returned is child 1's arrays,
\* then child 2's, ...: its arity is the sum of the children's.
C16_OneBatchPerChildInOrder ==
    mCall = "ret" =>
      /\ \A c \in Srcs : chTaken[c] = gYields
      /\ Len(mOut) = ArityBefore(NumSrcs) + SrcArity[NumSrcs]
      /\ \A i \in DOMAIN mOut :
           mOut[i] = << ChildAt(i), i - ArityBefore(ChildAt(i)), gYields >>

\* The second pull on one group has returned.
C16_Witness == mCall = "ret" /\ gYields = 2 /\ mProd = "call"

\* C17: a pull's request makes a new group exactly when no group is live or
\* the batch size differs from the group's; and when a pull returns, every
\* child's generator is live at the size asked for.
C17_ReacquireOnSizeChange ==
    /\ [][(mCall = "set" /\ mCall' # "set") =>
            ((gState' = "created") <=> (~ mGen \/ mBatchSize # mReq))]_vars
    /\ [](mCall = "ret" =>
            \A c \in Srcs : chStatus[c] = "live" /\ chSize[c] = mReq)

\* The warm-up acquired the children at size 1 and again at the generator's
\* size, the producer thread acquired them once more and has reused that
\* group for a second pull.
C17_Witness ==
    /\ mCall = "ret"
    /\ mBs # 1
    /\ gYields = 2
    /\ \A c \in Srcs : chAcq[c] = 3

\* Whether a is the end of b.
IsSuffix(a, b) ==
    /\ Len(a) <= Len(b)
    /\ a = SubSeq(b, Len(b) - Len(a) + 1, Len(b))

C23_OneTransformInstance ==
    (aRun.done /\ ~ aRun.skipped) =>
      /\ aRun.ops = 1
      /\ DOMAIN aOut = DOMAIN aArgs
      /\ \E seed \in 1 .. MaxSeed :
           \A i \in DOMAIN aArgs :
             aOut[i] = aArgs[i] \/ aOut[i] = [aArgs[i] EXCEPT !.by = seed]

\* An applied call transformed two positions.
C23_Witness ==
    /\ aRun.done
    /\ ~ aRun.skipped
    /\ DOMAIN aArgs = 0 .. 1
    /\ aOut[0].by # 0
    /\ aOut[1].by # 0

\* C24: an applied call with a target set S, given at the call or else
\* declared, transforms exactly the positions in S.
C24_ExactlyTargetsReplaced ==
    LET idx == IF aCall.idx.kind = "absent" THEN aDecl.idx ELSE aCall.idx
    IN (aRun.done /\ ~ aRun.skipped /\ idx.kind = "set") =>
         \A i \in DOMAIN aArgs :
           /\ i \in idx.v => aOut[i].by # 0
           /\ i \notin idx.v => aOut[i] = aArgs[i]

\* Record arrays of different lengths, or weights whose number differs from
\* the record count.
Misconfigured ==
    \/ \E a, b \in DOMAIN qStore.lens : qStore.lens[a] # qStore.lens[b]
    \/ qStore.probs.given /\ qStore.probs.v # qStore.lens[1]

\* C25: threadBatchGen on a misconfigured store does not succeed, starts no
\* producer thread, and no error comes up in the producer loop.
C25_ConfigErrorsFailAcquisition ==
    (Misconfigured /\ qArgs.strategy = "thread") =>
      /\ qPc # "acquired"
      /\ "thread" \notin qCreated
      /\ qError.where # "producer"

\* C26: acquiring on a store of zero records (where the strategy exists)
\* fails with the empty-source error, with no record asked for past the end
\* and no producer thread started.
C26_EmptySourceError ==
    ((\A a \in DOMAIN qStore.lens : qStore.lens[a] = 0)
        /\ qArgs.platform = "linux" /\ qArgs.strategy # "none") =>
      /\ ~ qOutOfRange
      /\ qPc # "acquired"
      /\ "thread" \notin qCreated
      /\ qPc = "failed" => qError.kind = "EmptySourceError"

\* C27: processBatchGen on Windows creates nothing and fails in the call
\* with the assertion's error.
C27_NoForkFailsFirst ==
    (qArgs.strategy = "process" /\ qArgs.platform = "windows") =>
      /\ qCreated = {}
      /\ qChunks = << >>
      /\ qPc \in {"platform", "failed"}
      /\ qPc = "failed" =>
           qError = [kind |-> "AssertionError", where |-> "acquire"]

\* processBatchGen has failed on Windows.
C27_Witness ==
    /\ qArgs.strategy = "process"
    /\ qArgs.platform = "windows"
    /\ qPc = "failed"

\* C29: the rows 0 .. batchSize-1 are split into min(batchSize, requested
\* or available) chunks: non-empty runs of consecutive rows, in ascending
\* order, covering every row once, with sizes at most one apart; and a
\* batch is complete after one worker thread was started per chunk.
C29_ChunksPartitionRows ==
    qChunks # << >> =>
      LET n == qArgs.batchSize
          want == IF qArgs.requested = 0 THEN CpuCount ELSE qArgs.requested
          k == Len(qChunks)
      IN /\ k = (IF n < want THEN n ELSE want)
         /\ \A c \in 1 .. k :
              /\ qChunks[c] # {}
              /\ \A x, y \in qChunks[c] :
                   \A z \in 0 .. n - 1 : (x < z /\ z < y) => z \in qChunks[c]
         /\ \A c, d \in 1 .. k :
              /\ c < d => \A x \in qChunks[c], y \in qChunks[d] : x < y
              /\ Cardinality(qChunks[c]) - Cardinality(qChunks[d]) <= 1
         /\ UNION {qChunks[c] : c \in 1 .. k} = 0 .. n - 1
         /\ qPc = "joined" => qWorkers = qChunks

\* A batch of four rows was produced by three workers.
C29_Witness ==
    /\ qPc = "joined"
    /\ qArgs.batchSize = 4
    /\ Len(qChunks) = 3
    /\ qArgs.requested = 0

\* C28: an array mapped from a handle nothing was written through equals the
\* array given to toShared, shape and elements; a write through a mapped
\* array shows in every array mapped from the same handle, which all read
\* the same; and the array given to toShared never changes.
C28_BridgeRoundTrip ==
    /\ [](\A v \in DOMAIN shViews :
            ~ shMem[shViews[v].h].written => ViewArray(shViews[v]) = shSrc)
    /\ [](\A v, w \in DOMAIN shViews :
            shViews[v].h = shViews[w].h =>
              /\ ViewArray(shViews[v]) = ViewArray(shViews[w])
              /\ shLast.v = v => ViewArray(shViews[w]).data[shLast.i] = shLast.x)
    /\ [][shSrc' = shSrc]_vars

\* Two arrays mapped from one handle, a write made through the first: the
\* second shows it and the source does not.
C28_Witness ==
    /\ Len(shViews) = 2
    /\ shViews[1].h = shViews[2].h
    /\ shLast.v = 1
    /\ ViewArray(shViews[2]).data[shLast.i] = shLast.x
    /\ shSrc.data[shLast.i] # shLast.x
    /\ Len(shSrc.shape) = 2

\* C30: once release has cleared isRunning (it stays cleared), the producer
\* thread at its loop test only ends, never starting another cycle; a batch
\* it still publishes brings it to that test, so it publishes at most one;
\* and it ends: it does not stay blocked on the full queue.
C30_CooperativeCancellation ==
    /\ [][(~ isRunning) => ~ isRunning']_vars
    /\ [][(~ isRunning /\ (ppc = "loop" \/ ProducerEnded)) =>
            /\ ppc' \in {ppc, "done"}
            /\ ProducerEnded => ppc' = ppc
            /\ published' = published
            /\ cycles' = cycles]_vars
    /\ [][(~ isRunning /\ published' # published) =>
            /\ published' = Append(published, cycles)
            /\ ppc' = "loop"]_vars
    /\ ((~ isRunning) ~> ProducerEnded)

\* Released with the queue full: the batch taken by the release and the one
\* left in the queue were both published, the second after the release took
\* the first, and the producer has ended.
C30_Witness ==
    /\ ~ isRunning
    /\ cpc = "released"
    /\ ppc = "done"
    /\ Len(batchQueue) = 1
    /\ Len(published) = Len(delivered) + 2

\* C33: file-backed store, fetches one after the other: after any fetches,
\* returned or raised, currentSize is the sum of the sizes of the cached
\* records (each file cached once), is not negative, and is zero exactly
\* when the cached records hold no bytes.
C33_CounterIsCachedBytes ==
    /\ fCurrentSize = CachedBytes(fCache)
    /\ \A i, j \in DOMAIN fCache : fCache[i] = fCache[j] => i = j
    /\ fCurrentSize >= 0
    /\ (fCurrentSize = 0) <=> (\A i \in DOMAIN fCache : fSize[fCache[i]] = 0)

\* A fetch that asked for one record twice (a miss, then hits) has returned,
\* the first file ever cached has been evicted and others are still cached.
C33_Witness ==
    /\ fStatus = "returned"
    /\ Len(fChosen) = 2
    /\ fChosen[1] = fChosen[2]
    /\ fHist.loaded # << >>
    /\ fHist.firstGone
    /\ fCache # << >>
    /\ fCurrentSize = CachedBytes(fCache)
    /\ fCurrentSize > 0

\* C32: inline strategy: the output buffers are allocated once, at
\* acquisition; every call returns those buffers, not a copy, so whatever
\* an earlier call returned reads as what the latest call wrote.
C32_LocalBuffersReused ==
    /\ lGen.allocs = IF lGen.pc \in {"body", "released"} THEN 1 ELSE 0
    /\ \A k \in DOMAIN lRets :
         /\ lRets[k].ref = "augs"
         /\ LocalDeref(lRets[k]) = lRets[Len(lRets)].snap

\* Two calls wrote different batches: the array the first returned no longer
\* reads as it did at its return but as the second batch.
C32_Witness ==
    /\ Len(lRets) = 2
    /\ lRets[1].snap # lRets[2].snap
    /\ LocalDeref(lRets[1]) = lRets[2].snap
    /\ LocalDeref(lRets[1]) # lRets[1].snap

\* C31: a buffering store appended to or cleared while a producer thread
\* fetches from it: the weight vector the fetch was handed, the shape[0] it
\* drew its indices from and every array it indexed have one length, and
\* the fetch raises only on a store it saw empty.
C31_FetchSeesOneStore ==
    bGet.pc \in {"iter", "index", "done", "raised"} =>
      /\ bGet.probs.given => bGet.probs.v = bGet.n
      /\ \A i \in DOMAIN bGet.seen : bGet.seen[i] = bGet.n
      /\ bGet.pc = "raised" => (bGet.n = 0 /\ bGet.seen = << >>)

====
